---- MODULE Spec2Model ----
(***************************************************************************)
(* fuse-mt: the inode table (src/src/inode_table.rs) and the request       *)
(* dispatcher FuseMT (src/src/fusemt.rs), as a state machine.              *)
(*                                                                         *)
(* Paths are sequences of names; the root "/" is the empty sequence.       *)
(* Option<T> is a sequence of length <= 1: None is <<>>, Some(x) is <<x>>. *)
(* Table indices are 0-based as in the code: table[idx] of the code is     *)
(* table[idx + 1] here, so the inode number idx + 1 is the TLA+ index.     *)
(***************************************************************************)
EXTENDS Naturals, Integers, Sequences, FiniteSets, Bags, TLC

(* ----- bounds of the model ----- *)
MaxTable == 3
MaxLookups == 2
MaxGen == 2

(* ----- the sample of names and paths the environment draws from ----- *)
Names == {"foo", "bar"}
Root == <<>>
Paths == {Root} \cup {<<n>> : n \in Names}
Files == Paths \ {Root}

None == <<>>
Some(x) == <<x>>
is_some(o) == o # <<>>
unwrap(o) == o[1]

(* PathBuf::join with a single-component name *)
join(parent_path, name) == Append(parent_path, name)

VARIABLES
    inodes,     \* FuseMT.inodes : InodeTable {table, free_list, by_path}
    panicked,   \* "" while the process runs; else the panic that ended it
    hist,       \* ghost: the most recent calls and their results, newest first
    allocs,     \* ghost: bag of the (inode, generation) pairs allocations returned
    fs,         \* the user filesystem: path -> "-" (absent) | "f" | "d"
    nlookup,    \* the kernel's lookup count per inode number
    dcache,     \* the kernel's name cache: path -> inode number
    directory_cache,  \* FuseMT.directory_cache : DirectoryCache {next_key, entries}
    threads,    \* FuseMT.threads : the pool's task queue and the tasks being run
    kbuf,       \* the kernel transport's request buffer, reused by every request
    handles,    \* ghost: the directory handles the kernel holds, by synthetic key
    sent,       \* ghost: the replies sent so far on each request's reply handle
    unique      \* the number of requests the transport has delivered

vars == <<inodes, panicked, hist, allocs, fs, nlookup, dcache,
          directory_cache, threads, kbuf, handles, sent, unique>>

\* what the namespace handlers and the direct table calls leave alone
aux == <<directory_cache, threads, kbuf, handles, sent, unique>>

(* ----- HashMap<Arc<PathBuf>, usize> as a function on its key set ----- *)
map_insert(m, k, v) == [q \in DOMAIN m \cup {k} |-> IF q = k THEN v ELSE m[q]]
map_remove(m, k) == [q \in DOMAIN m \ {k} |-> m[q]]
map_get(m, k) == IF k \in DOMAIN m THEN Some(m[k]) ELSE None

(* ----- InodeTable ----- *)
InodeTable_new ==
    [table |-> << [path |-> Some(Root), lookups |-> 0, generation |-> 0] >>,
     free_list |-> <<>>,
     by_path |-> [q \in {Root} |-> 0]]

get_inode_entry_same_generation(free_list, table) ==
    IF free_list # <<>>
    THEN [idx |-> Head(free_list), free_list |-> Tail(free_list), table |-> table]
    ELSE [idx |-> Len(table), free_list |-> free_list,
          table |-> Append(table, [path |-> None, lookups |-> 0, generation |-> 0])]

\* a free list used as a stack: the slot freed last is reused first
get_inode_entry_newest_first(free_list, table) ==
    IF free_list # <<>>
    THEN LET idx == free_list[Len(free_list)] IN
         [idx |-> idx, free_list |-> SubSeq(free_list, 1, Len(free_list) - 1),
          table |-> [table EXCEPT ![idx + 1].generation = @ + 1]]
    ELSE [idx |-> Len(table), free_list |-> free_list,
          table |-> Append(table, [path |-> None, lookups |-> 0, generation |-> 0])]

get_inode_entry(free_list, table) ==
    IF free_list # <<>>
    THEN LET idx == Head(free_list) IN
         [idx |-> idx, free_list |-> Tail(free_list),
          table |-> [table EXCEPT ![idx + 1].generation = @ + 1]]
    ELSE [idx |-> Len(table), free_list |-> free_list,
          table |-> Append(table, [path |-> None, lookups |-> 0, generation |-> 0])]

\* an add that takes by_path.insert's replacing of the old mapping for success
add_remaps(t, path) ==
    LET e == get_inode_entry(t.free_list, t.table)
        tb == [e.table EXCEPT ![e.idx + 1].path = Some(path),
                              ![e.idx + 1].lookups = 1]
    IN [t |-> [table |-> tb, free_list |-> e.free_list,
               by_path |-> map_insert(t.by_path, path, e.idx)],
        inode |-> e.idx + 1,
        generation |-> tb[e.idx + 1].generation,
        fresh |-> TRUE,
        panic |-> ""]

\* an add that leaves the slot's lookup count as get_inode_entry handed it out
add_counts_nothing(t, path) ==
    LET e == get_inode_entry(t.free_list, t.table)
        tb == [e.table EXCEPT ![e.idx + 1].path = Some(path)]
        previous == map_get(t.by_path, path)
    IN [t |-> [table |-> tb, free_list |-> e.free_list,
               by_path |-> map_insert(t.by_path, path, e.idx)],
        inode |-> e.idx + 1,
        generation |-> tb[e.idx + 1].generation,
        fresh |-> TRUE,
        panic |-> IF is_some(previous) THEN "duplicate path" ELSE ""]

add(t, path) ==
    LET e == get_inode_entry(t.free_list, t.table)
        tb == [e.table EXCEPT ![e.idx + 1].path = Some(path),
                              ![e.idx + 1].lookups = 1]
        previous == map_get(t.by_path, path)
    IN [t |-> [table |-> tb, free_list |-> e.free_list,
               by_path |-> map_insert(t.by_path, path, e.idx)],
        inode |-> e.idx + 1,
        generation |-> tb[e.idx + 1].generation,
        fresh |-> TRUE,
        panic |-> IF is_some(previous) THEN "duplicate path" ELSE ""]

add_or_get_off_by_one(t, path) ==
    IF path \notin DOMAIN t.by_path
    THEN LET e == get_inode_entry(t.free_list, t.table)
             tb == [e.table EXCEPT ![e.idx + 1].path = Some(path)]
         IN [t |-> [table |-> tb, free_list |-> e.free_list,
                    by_path |-> map_insert(t.by_path, path, e.idx + 1)],
             inode |-> e.idx + 1,
             generation |-> tb[e.idx + 1].generation,
             fresh |-> TRUE,
             panic |-> ""]
    ELSE LET idx == t.by_path[path] IN
         [t |-> t, inode |-> idx + 1, generation |-> t.table[idx + 1].generation,
          fresh |-> FALSE, panic |-> ""]

\* an add_or_get that counts the insertion as a lookup, as add does
add_or_get_counts_one(t, path) ==
    IF path \notin DOMAIN t.by_path
    THEN LET e == get_inode_entry(t.free_list, t.table)
             tb == [e.table EXCEPT ![e.idx + 1].path = Some(path),
                                   ![e.idx + 1].lookups = 1]
         IN [t |-> [table |-> tb, free_list |-> e.free_list,
                    by_path |-> map_insert(t.by_path, path, e.idx)],
             inode |-> e.idx + 1,
             generation |-> tb[e.idx + 1].generation,
             fresh |-> TRUE,
             panic |-> ""]
    ELSE LET idx == t.by_path[path] IN
         [t |-> t, inode |-> idx + 1, generation |-> t.table[idx + 1].generation,
          fresh |-> FALSE, panic |-> ""]

add_or_get(t, path) ==
    IF path \notin DOMAIN t.by_path
    THEN LET e == get_inode_entry(t.free_list, t.table)
             tb == [e.table EXCEPT ![e.idx + 1].path = Some(path)]
         IN [t |-> [table |-> tb, free_list |-> e.free_list,
                    by_path |-> map_insert(t.by_path, path, e.idx)],
             inode |-> e.idx + 1,
             generation |-> tb[e.idx + 1].generation,
             fresh |-> TRUE,
             panic |-> ""]
    ELSE LET idx == t.by_path[path] IN
         [t |-> t, inode |-> idx + 1, generation |-> t.table[idx + 1].generation,
          fresh |-> FALSE, panic |-> ""]

get_path(t, inode) == t.table[inode].path

\* self.table[inode as usize - 1]: whether the index is within the Vec
in_table(t, inode) == inode \in DOMAIN t.table

get_inode(t, path) ==
    IF path \in DOMAIN t.by_path THEN Some(t.by_path[path] + 1) ELSE None

lookup_counts_nothing(t, inode) ==
    IF inode = 1 \/ inode <= Len(t.table) THEN [t |-> t, panic |-> ""]
    ELSE [t |-> t, panic |-> "index out of bounds"]

lookup(t, inode) ==
    IF inode = 1 THEN [t |-> t, panic |-> ""]
    ELSE IF inode > Len(t.table) THEN [t |-> t, panic |-> "index out of bounds"]
    ELSE [t |-> [t EXCEPT !.table[inode].lookups = @ + 1], panic |-> ""]

\* a forget without the assertion, its subtraction stopping at zero
forget_entry_unchecked(t, inode, n) ==
    IF inode > Len(t.table)
    THEN [t |-> t, lookups |-> 0, panic |-> "index out of bounds"]
    ELSE LET idx == inode - 1
             entry == t.table[idx + 1]
             lookups == IF n <= entry.lookups THEN entry.lookups - n ELSE 0
         IN IF lookups # 0
            THEN [t |-> [t EXCEPT !.table[idx + 1].lookups = lookups],
                  lookups |-> lookups, panic |-> ""]
            ELSE IF ~is_some(entry.path)
            THEN [t |-> [t EXCEPT !.table[idx + 1].lookups = lookups],
                  lookups |-> lookups, panic |-> "unwrap on None"]
            ELSE [t |-> [table |-> [t.table EXCEPT ![idx + 1].lookups = lookups,
                                                   ![idx + 1].path = None],
                         free_list |-> Append(t.free_list, idx),
                         by_path |-> map_remove(t.by_path, unwrap(entry.path))],
                  lookups |-> lookups, panic |-> ""]

\* forget, past the test for inode 1
forget_entry(t, inode, n) ==
    IF inode > Len(t.table)
    THEN [t |-> t, lookups |-> 0, panic |-> "index out of bounds"]
    ELSE LET idx == inode - 1
             entry == t.table[idx + 1]
         IN IF ~(n <= entry.lookups)
            THEN [t |-> t, lookups |-> 0, panic |-> "assertion failed: n <= entry.lookups"]
            ELSE LET lookups == entry.lookups - n IN
                 IF lookups # 0
                 THEN [t |-> [t EXCEPT !.table[idx + 1].lookups = lookups],
                       lookups |-> lookups, panic |-> ""]
                 ELSE IF ~is_some(entry.path)
                 THEN [t |-> [t EXCEPT !.table[idx + 1].lookups = lookups],
                       lookups |-> lookups, panic |-> "unwrap on None"]
                 ELSE [t |-> [table |-> [t.table EXCEPT ![idx + 1].lookups = lookups,
                                                        ![idx + 1].path = None],
                              free_list |-> Append(t.free_list, idx),
                              by_path |-> map_remove(t.by_path, unwrap(entry.path))],
                       lookups |-> lookups, panic |-> ""]

forget_root_like_any(t, inode, n) == forget_entry(t, inode, n)

forget_keeps_path(t, inode, n) ==
    LET r == forget_entry(t, inode, n) IN
    IF inode = 1 THEN [t |-> t, lookups |-> 1, panic |-> ""]
    ELSE IF r.panic = "" /\ r.lookups = 0
    THEN [r EXCEPT !.t.table[inode].path = t.table[inode].path]
    ELSE r

\* a forget that frees the slot and leaves by_path as it was
forget_keeps_mapping(t, inode, n) ==
    LET r == forget_entry(t, inode, n) IN
    IF inode = 1 THEN [t |-> t, lookups |-> 1, panic |-> ""]
    ELSE IF r.panic = "" /\ r.lookups = 0
    THEN [r EXCEPT !.t.by_path = t.by_path]
    ELSE r

forget(t, inode, n) ==
    IF inode = 1 THEN [t |-> t, lookups |-> 1, panic |-> ""]
    ELSE forget_entry(t, inode, n)

rename_keeps_old_mapping(t, oldpath, newpath) ==
    IF oldpath \notin DOMAIN t.by_path
    THEN [t |-> t, idx |-> 0, panic |-> "unwrap on None"]
    ELSE LET idx == t.by_path[oldpath] IN
         [t |-> [t EXCEPT !.table[idx + 1].path = Some(newpath),
                          !.by_path = map_insert(t.by_path, newpath, idx)],
          idx |-> idx, panic |-> ""]

rename_keeps_old_path(t, oldpath, newpath) ==
    IF oldpath \notin DOMAIN t.by_path
    THEN [t |-> t, idx |-> 0, panic |-> "unwrap on None"]
    ELSE LET idx == t.by_path[oldpath] IN
         [t |-> [t EXCEPT !.by_path = map_insert(map_remove(t.by_path, oldpath), newpath, idx)],
          idx |-> idx, panic |-> ""]

\* a rename that enters the new path the way add does, at one lookup
rename_recounts(t, oldpath, newpath) ==
    IF oldpath \notin DOMAIN t.by_path
    THEN [t |-> t, idx |-> 0, panic |-> "unwrap on None"]
    ELSE LET idx == t.by_path[oldpath] IN
         [t |-> [t EXCEPT !.table[idx + 1].path = Some(newpath),
                          !.table[idx + 1].lookups = 1,
                          !.by_path = map_insert(map_remove(t.by_path, oldpath), newpath, idx)],
          idx |-> idx, panic |-> ""]

\* a rename that gives up the slot of the inode it displaces
rename_frees_displaced(t, oldpath, newpath) ==
    IF oldpath \notin DOMAIN t.by_path
    THEN [t |-> t, idx |-> 0, panic |-> "unwrap on None"]
    ELSE LET idx == t.by_path[oldpath]
             gone == IF newpath \in DOMAIN t.by_path /\ t.by_path[newpath] # idx
                     THEN <<t.by_path[newpath]>> ELSE <<>>
             tb == IF gone = <<>> THEN t.table
                   ELSE [t.table EXCEPT ![gone[1] + 1].path = None]
         IN
         [t |-> [table |-> [tb EXCEPT ![idx + 1].path = Some(newpath)],
                 free_list |-> t.free_list \o gone,
                 by_path |-> map_insert(map_remove(t.by_path, oldpath), newpath, idx)],
          idx |-> idx, panic |-> ""]

rename(t, oldpath, newpath) ==
    IF oldpath \notin DOMAIN t.by_path
    THEN [t |-> t, idx |-> 0, panic |-> "unwrap on None"]
    ELSE LET idx == t.by_path[oldpath] IN
         [t |-> [t EXCEPT !.table[idx + 1].path = Some(newpath),
                          !.by_path = map_insert(map_remove(t.by_path, oldpath), newpath, idx)],
          idx |-> idx, panic |-> ""]

unlink_clears_path(t, path) ==
    IF path \in DOMAIN t.by_path
    THEN [t EXCEPT !.table[t.by_path[path] + 1].path = None,
                   !.by_path = map_remove(t.by_path, path)]
    ELSE t

unlink(t, path) == [t EXCEPT !.by_path = map_remove(t.by_path, path)]

(* ----- bounds on the unbounded counters ----- *)
RECURSIVE SumOver(_, _)
SumOver(table, field) ==
    IF table = <<>> THEN 0
    ELSE Head(table)[field] + SumOver(Tail(table), field)

\* MaxTable slots at most; MaxGen slot reuses at most over the whole run;
\* MaxLookups outstanding lookups at most, summed over the table.
CanAlloc(t) ==
    IF t.free_list = <<>> THEN Len(t.table) < MaxTable
    ELSE SumOver(t.table, "generation") < MaxGen

CanCount(t) == SumOver(t.table, "lookups") < MaxLookups

(* ----- ghost history ----- *)
NoOp == [op |-> "", path |-> None, path2 |-> None, ino |-> 0, n |-> 0,
         rino |-> 0, rgen |-> 0, rcnt |-> 0, qlen |-> 0, err |-> "", seq |-> 0,
         cb |-> <<>>, args |-> {}, fh |-> 0, fail |-> "",
     ufh |-> 0, out |-> <<>>]

\* The newest call is always remembered with its arguments and results; the
\* calls before it are remembered only while the calls form a prefix of
\*   add ; forget(the inode just added) ; add .
Keep(rec) ==
    IF rec.op = "add" /\ Len(hist) = 2 /\ hist[1].op = "forget"
    THEN <<rec, hist[1], hist[2]>>
    ELSE IF rec.op = "add"
    THEN <<rec>>
    ELSE IF rec.op = "forget" /\ Len(hist) = 1 /\ hist[1].op = "add"
            /\ hist[1].rino = rec.ino
    THEN <<rec, hist[1]>>
    ELSE <<rec>>

Pair(i, g) == SetToBag({<<i, g>>})

NoFiles == [p \in Files |-> "-"]
NoLookups == [i \in 1..(MaxTable + 1) |-> 0]
NoNames == [q \in {} |-> 0]

(* ----- DirectoryCache and the idle pool, as constructed ----- *)
\* next_key is a Wrapping<u64>; the model counts modulo 2^KeyBits
KeyBits == 3
KeyModulus == 2^KeyBits

\* (issued is a ghost: the number of keys new_entry has handed out)
DirectoryCache_new ==
    [next_key |-> 1, entries |-> [k \in {} |-> 0], issued |-> 0]
\* ThreadPool::new(num_threads): the number of worker threads
NumThreads == 2

\* a pool of num_threads workers with nothing queued
ThreadPool_of(num_threads) ==
    [queue |-> <<>>, running |-> {}, size |-> num_threads]

ThreadPool_new == ThreadPool_of(NumThreads)
NoHandles == [k \in {} |-> 0]
NoReplies == [u \in {} |-> <<>>]

\* A panic ends the process: its memory is gone, only the message is left.
Crash(msg) ==
    /\ panicked' = msg
    /\ inodes' = InodeTable_new
    /\ hist' = <<>>
    /\ allocs' = EmptyBag
    /\ fs' = NoFiles
    /\ nlookup' = NoLookups
    /\ dcache' = NoNames
    /\ directory_cache' = DirectoryCache_new
    /\ threads' = ThreadPool_new
    /\ kbuf' = <<>>
    /\ handles' = NoHandles
    /\ sent' = NoReplies
    /\ unique' = 0

KernelIdle == UNCHANGED <<fs, nlookup, dcache, aux>>

InitTable ==
    /\ inodes = InodeTable_new
    /\ panicked = ""
    /\ hist = <<>>
    /\ allocs = EmptyBag
    /\ fs = NoFiles
    /\ nlookup = NoLookups
    /\ dcache = NoNames
    /\ directory_cache = DirectoryCache_new
    /\ threads = ThreadPool_new
    /\ kbuf = <<>>
    /\ handles = NoHandles
    /\ sent = NoReplies
    /\ unique = 0

(* ----- the inode table driven directly, call by call ----- *)
TableAdd(p) ==
    /\ panicked = ""
    /\ CanAlloc(inodes) /\ CanCount(inodes)
    /\ LET r == add(inodes, p) IN
       IF r.panic # "" THEN Crash(r.panic)
       ELSE /\ inodes' = r.t
            /\ hist' = Keep([NoOp EXCEPT !.op = "add", !.path = Some(p),
                                         !.rino = r.inode, !.rgen = r.generation])
            /\ allocs' = allocs (+) Pair(r.inode, r.generation)
            /\ panicked' = ""
            /\ KernelIdle

TableAddOrGet(p) ==
    /\ panicked = ""
    /\ p \in DOMAIN inodes.by_path \/ CanAlloc(inodes)
    /\ LET r == add_or_get(inodes, p) IN
       /\ inodes' = r.t
       /\ hist' = Keep([NoOp EXCEPT !.op = "add_or_get"])
       /\ allocs' = IF r.fresh THEN allocs (+) Pair(r.inode, r.generation) ELSE allocs
       /\ panicked' = ""
       /\ KernelIdle

TableLookup(i) ==
    /\ panicked = ""
    /\ i = 1 \/ i > Len(inodes.table) \/ CanCount(inodes)
    /\ LET r == lookup(inodes, i) IN
       IF r.panic # "" THEN Crash(r.panic)
       ELSE /\ inodes' = r.t
            /\ hist' = Keep([NoOp EXCEPT !.op = "lookup"])
            /\ UNCHANGED <<allocs, panicked>>
            /\ KernelIdle

TableForget(i, n) ==
    /\ panicked = ""
    /\ LET r == forget(inodes, i, n) IN
       IF r.panic # "" THEN Crash(r.panic)
       ELSE /\ inodes' = r.t
            /\ hist' = Keep([NoOp EXCEPT !.op = "forget", !.ino = i, !.n = n,
                                         !.rcnt = r.lookups,
                                         !.qlen = Len(r.t.free_list)])
            /\ UNCHANGED <<allocs, panicked>>
            /\ KernelIdle

TableRename(a, b) ==
    /\ panicked = ""
    /\ LET r == rename(inodes, a, b) IN
       IF r.panic # "" THEN Crash(r.panic)
       ELSE /\ inodes' = r.t
            /\ hist' = Keep([NoOp EXCEPT !.op = "rename", !.path = Some(a), !.path2 = Some(b),
                                         !.rino = r.idx + 1])
            /\ UNCHANGED <<allocs, panicked>>
            /\ KernelIdle

TableUnlink(p) ==
    /\ panicked = ""
    /\ inodes' = unlink(inodes, p)
    /\ hist' = Keep([NoOp EXCEPT !.op = "unlink", !.path = Some(p),
                                 !.rino = IF p \in DOMAIN inodes.by_path
                                          THEN inodes.by_path[p] + 1 ELSE 0])
    /\ UNCHANGED <<allocs, panicked>>
    /\ KernelIdle

\* Inode arguments range over the table and one number past it; forget counts
\* range up to one past the inode's lookup count.
InodeArgs == 1..(Len(inodes.table) + 1)
CountOf(i) == IF i <= Len(inodes.table) THEN inodes.table[i].lookups ELSE 0

NextInsert ==
    \/ \E p \in Paths : TableAdd(p)
    \/ \E p \in Paths : TableAddOrGet(p)
    \/ \E i \in InodeArgs : TableLookup(i)
    \/ \E i \in InodeArgs, n \in 0..(MaxLookups + 1) :
          n <= CountOf(i) + 1 /\ TableForget(i, n)

NextTable ==
    \/ NextInsert
    \/ \E a \in Files, b \in Files : TableRename(a, b)
    \/ \E p \in Files : TableUnlink(p)

\* The inode table as its one caller uses it: the count of an inode is raised
\* only while the inode holds a path (FuseMT::lookup counts the inode that
\* add_or_get has just returned).
NextCalls ==
    \/ \E p \in Paths : TableAdd(p)
    \/ \E p \in Paths : TableAddOrGet(p)
    \/ \E i \in InodeArgs :
          /\ IF in_table(inodes, i) THEN is_some(get_path(inodes, i)) ELSE FALSE
          /\ TableLookup(i)
    \/ \E i \in InodeArgs, n \in 0..(MaxLookups + 1) :
          n <= CountOf(i) + 1 /\ TableForget(i, n)
    \/ \E a \in Files, b \in Files : TableRename(a, b)
    \/ \E p \in Files : TableUnlink(p)

SpecCalls == InitTable /\ [][NextCalls]_vars
SpecInsert == InitTable /\ [][NextInsert]_vars
SpecTable == InitTable /\ [][NextTable]_vars

(***************************************************************************)
(* The dispatcher FuseMT, the kernel that sends it requests, and the user  *)
(* filesystem (target) it calls.                                           *)
(***************************************************************************)

(* ----- the target filesystem: the example passthrough over a flat tree ----- *)
\* the generation every entry result of the target carries
target_generation == 0

Ok(f) == [err |-> "", fs |-> f]
Err(e, f) == [err |-> e, fs |-> f]

Exists(f, path) == path \in DOMAIN f /\ f[path] # "-"

\* the error for a path below something that is not the root
NoParent(f, path) ==
    IF Len(path) = 2 /\ Exists(f, <<path[1]>>) /\ f[<<path[1]>>] = "f"
    THEN "ENOTDIR" ELSE "ENOENT"

target_lookup(f, path) ==
    IF Exists(f, path) THEN Ok(f) ELSE Err(NoParent(f, path), f)

\* mknod, symlink, create (kind "f") and mkdir (kind "d")
target_make(f, path, kind) ==
    IF path \notin Files THEN Err(NoParent(f, path), f)
    ELSE IF f[path] # "-" THEN Err("EEXIST", f)
    ELSE Ok([f EXCEPT ![path] = kind])

target_mknod(f, path) == target_make(f, path, "f")
target_mkdir(f, path) == target_make(f, path, "d")
target_symlink(f, path) == target_make(f, path, "f")
target_create(f, path) == target_make(f, path, "f")

target_unlink(f, path) ==
    IF ~Exists(f, path) THEN Err(NoParent(f, path), f)
    ELSE IF f[path] = "d" THEN Err("EISDIR", f)
    ELSE Ok([f EXCEPT ![path] = "-"])

target_rmdir(f, path) ==
    IF ~Exists(f, path) THEN Err(NoParent(f, path), f)
    ELSE IF f[path] # "d" THEN Err("ENOTDIR", f)
    ELSE Ok([f EXCEPT ![path] = "-"])

target_rename(f, path, newpath) ==
    IF ~Exists(f, path) THEN Err(NoParent(f, path), f)
    ELSE IF newpath \notin Files THEN Err(NoParent(f, newpath), f)
    ELSE IF path = newpath THEN Ok(f)
    ELSE IF f[newpath] = "d" /\ f[path] = "f" THEN Err("EISDIR", f)
    ELSE IF f[newpath] = "f" /\ f[path] = "d" THEN Err("ENOTDIR", f)
    ELSE Ok([f EXCEPT ![newpath] = f[path], ![path] = "-"])

target_link(f, path, newpath) ==
    IF ~Exists(f, path) THEN Err(NoParent(f, path), f)
    ELSE IF f[path] = "d" THEN Err("EPERM", f)
    ELSE IF newpath \notin Files THEN Err(NoParent(f, newpath), f)
    ELSE IF f[newpath] # "-" THEN Err("EEXIST", f)
    ELSE Ok([f EXCEPT ![newpath] = "f"])

(* ----- the kernel ----- *)
\* The inodes the kernel may address: the root, and every inode an entry
\* reply returned that it has not forgotten down to zero.
Known == {1} \cup {i \in DOMAIN nlookup : nlookup[i] > 0}

\* The kernel resolves a name before it removes or renames it.
Resolved(name) == <<name>> \in DOMAIN dcache

DropInode(d, i) == [q \in {q \in DOMAIN d : d[q] # i} |-> d[q]]

\* The first request of a mount is remembered, and after it the requests that
\* continue   lookup ; forget(the inode it returned, 1) ; lookup .
KeepRequest(rec) ==
    IF hist = <<>>
    THEN << [rec EXCEPT !.seq = 1] >>
    ELSE IF Len(hist) = 1 /\ hist[1].seq = 1 /\ hist[1].op = "FuseMT_lookup"
            /\ hist[1].err = "" /\ rec.op = "FuseMT_forget"
            /\ rec.ino = hist[1].rino /\ rec.n = 1
    THEN << [rec EXCEPT !.seq = 2], hist[1] >>
    ELSE IF Len(hist) = 2 /\ hist[1].seq = 2 /\ rec.op = "FuseMT_lookup"
    THEN << [rec EXCEPT !.seq = 3], hist[1], hist[2] >>
    ELSE << rec >>

(* ----- replies ----- *)
\* get_path! found no path: reply.error(EINVAL) and return, before any callback
reply_einval(op) ==
    /\ hist' = KeepRequest([NoOp EXCEPT !.op = op, !.err = "EINVAL"])
    /\ UNCHANGED <<inodes, panicked, allocs, fs, nlookup, dcache, aux>>

\* a handler that counts a lookup of the newest inode before it looks at the
\* callback's result
reply_error_after_lookup(op, e) ==
    /\ hist' = KeepRequest([NoOp EXCEPT !.op = op, !.err = e, !.cb = <<op>>])
    /\ inodes' = lookup(inodes, Len(inodes.table)).t
    /\ UNCHANGED <<panicked, allocs, fs, nlookup, dcache, aux>>

\* reply.error(e) after the handler's callback failed: nothing has changed
reply_error(op, e) ==
    /\ hist' = KeepRequest([NoOp EXCEPT !.op = op, !.err = e, !.cb = <<op>>])
    /\ UNCHANGED <<inodes, panicked, allocs, fs, nlookup, dcache, aux>>

\* reply.entry(ttl, attr, generation) with attr.ino = r.inode; the kernel
\* counts one more lookup of that inode and caches the name.
reply_entry(op, path, r, generation, f) ==
    /\ inodes' = r.t
    /\ fs' = f
    /\ nlookup' = [nlookup EXCEPT ![r.inode] = @ + 1]
    /\ dcache' = map_insert(dcache, path, r.inode)
    /\ allocs' = IF r.fresh THEN allocs (+) Pair(r.inode, r.generation) ELSE allocs
    /\ hist' = KeepRequest([NoOp EXCEPT !.op = op, !.path = Some(path),
                                        !.rino = r.inode, !.rgen = generation,
                                        !.n = IF r.fresh THEN 1 ELSE 0,
                                        !.cb = <<op>>])
    /\ panicked' = ""
    /\ UNCHANGED aux

\* reply.ok()
reply_ok(op, t, f, d) ==
    /\ inodes' = t
    /\ fs' = f
    /\ dcache' = d
    /\ hist' = KeepRequest([NoOp EXCEPT !.op = op, !.cb = <<op>>])
    /\ UNCHANGED <<panicked, allocs, nlookup, aux>>

(* ----- the handlers ----- *)
FuseMT_lookup(parent, name) ==
    /\ panicked = ""
    /\ CanAlloc(inodes) /\ CanCount(inodes)
    /\ LET parent_path == get_path(inodes, parent) IN
       IF ~in_table(inodes, parent) THEN Crash("index out of bounds")
       ELSE IF ~is_some(parent_path) THEN reply_einval("FuseMT_lookup")
       ELSE LET path == join(unwrap(parent_path), name)
                res == target_lookup(fs, path)
            IN IF res.err # "" THEN reply_error("FuseMT_lookup", res.err)
               ELSE LET a == add_or_get(inodes, path)
                        l == lookup(a.t, a.inode)
                    IN IF l.panic # "" THEN Crash(l.panic)
                       ELSE reply_entry("FuseMT_lookup", path, [a EXCEPT !.t = l.t],
                                        target_generation, res.fs)

FuseMT_forget(ino, n) ==
    /\ panicked = ""
    /\ IF ino > Len(inodes.table) THEN Crash("index out of bounds")
       ELSE IF ~is_some(get_path(inodes, ino)) THEN Crash("unwrap on None")
       ELSE LET r == forget(inodes, ino, n) IN
            IF r.panic # "" THEN Crash(r.panic)
            ELSE /\ inodes' = r.t
                 /\ nlookup' = [nlookup EXCEPT ![ino] = @ - n]
                 /\ dcache' = IF nlookup[ino] = n THEN DropInode(dcache, ino) ELSE dcache
                 /\ hist' = KeepRequest([NoOp EXCEPT !.op = "FuseMT_forget", !.ino = ino,
                                                     !.n = n, !.rcnt = r.lookups])
                 /\ UNCHANGED <<panicked, allocs, fs, aux>>

FuseMT_mknod(parent, name) ==
    /\ panicked = ""
    /\ CanAlloc(inodes) /\ CanCount(inodes)
    /\ LET parent_path == get_path(inodes, parent) IN
       IF ~in_table(inodes, parent) THEN Crash("index out of bounds")
       ELSE IF ~is_some(parent_path) THEN reply_einval("FuseMT_mknod")
       ELSE LET path == join(unwrap(parent_path), name)
                res == target_mknod(fs, path)
            IN IF res.err # "" THEN reply_error("FuseMT_mknod", res.err)
               ELSE LET a == add(inodes, path) IN
                    IF a.panic # "" THEN Crash(a.panic)
                    ELSE reply_entry("FuseMT_mknod", path, a, target_generation, res.fs)

FuseMT_mkdir(parent, name) ==
    /\ panicked = ""
    /\ CanAlloc(inodes) /\ CanCount(inodes)
    /\ LET parent_path == get_path(inodes, parent) IN
       IF ~in_table(inodes, parent) THEN Crash("index out of bounds")
       ELSE IF ~is_some(parent_path) THEN reply_einval("FuseMT_mkdir")
       ELSE LET path == join(unwrap(parent_path), name)
                res == target_mkdir(fs, path)
            IN IF res.err # "" THEN reply_error("FuseMT_mkdir", res.err)
               ELSE LET a == add(inodes, path) IN
                    IF a.panic # "" THEN Crash(a.panic)
                    ELSE reply_entry("FuseMT_mkdir", path, a, target_generation, res.fs)

FuseMT_symlink(parent, name) ==
    /\ panicked = ""
    /\ CanAlloc(inodes) /\ CanCount(inodes)
    /\ LET parent_path == get_path(inodes, parent) IN
       IF ~in_table(inodes, parent) THEN Crash("index out of bounds")
       ELSE IF ~is_some(parent_path) THEN reply_einval("FuseMT_symlink")
       ELSE LET path == join(unwrap(parent_path), name)
                res == target_symlink(fs, path)
            IN IF res.err # "" THEN reply_error("FuseMT_symlink", res.err)
               ELSE LET a == add(inodes, path) IN
                    IF a.panic # "" THEN Crash(a.panic)
                    ELSE reply_entry("FuseMT_symlink", path, a, target_generation, res.fs)

FuseMT_create(parent, name) ==
    /\ panicked = ""
    /\ CanAlloc(inodes) /\ CanCount(inodes)
    /\ LET parent_path == get_path(inodes, parent) IN
       IF ~in_table(inodes, parent) THEN Crash("index out of bounds")
       ELSE IF ~is_some(parent_path) THEN reply_einval("FuseMT_create")
       ELSE LET path == join(unwrap(parent_path), name)
                res == target_create(fs, path)
            IN IF res.err # "" THEN reply_error("FuseMT_create", res.err)
               ELSE LET a == add(inodes, path) IN
                    IF a.panic # "" THEN Crash(a.panic)
                    ELSE reply_entry("FuseMT_create", path, a, target_generation, res.fs)

FuseMT_unlink(parent, name) ==
    /\ panicked = ""
    /\ LET parent_path == get_path(inodes, parent) IN
       IF ~in_table(inodes, parent) THEN Crash("index out of bounds")
       ELSE IF ~is_some(parent_path) THEN reply_einval("FuseMT_unlink")
       ELSE LET path == join(unwrap(parent_path), name)
                res == target_unlink(fs, path)
            IN IF res.err # "" THEN reply_error("FuseMT_unlink", res.err)
               ELSE reply_ok("FuseMT_unlink", unlink(inodes, path), res.fs,
                             map_remove(dcache, path))

FuseMT_rmdir(parent, name) ==
    /\ panicked = ""
    /\ LET parent_path == get_path(inodes, parent) IN
       IF ~in_table(inodes, parent) THEN Crash("index out of bounds")
       ELSE IF ~is_some(parent_path) THEN reply_einval("FuseMT_rmdir")
       ELSE LET path == join(unwrap(parent_path), name)
                res == target_rmdir(fs, path)
            IN IF res.err # "" THEN reply_error("FuseMT_rmdir", res.err)
               ELSE reply_ok("FuseMT_rmdir", inodes, res.fs, map_remove(dcache, path))

FuseMT_rename(parent, name, newparent, newname) ==
    /\ panicked = ""
    /\ LET parent_path == get_path(inodes, parent)
           newparent_path == get_path(inodes, newparent)
       IN
       IF ~in_table(inodes, parent) THEN Crash("index out of bounds")
       ELSE IF ~is_some(parent_path) THEN reply_einval("FuseMT_rename")
       ELSE IF ~in_table(inodes, newparent) THEN Crash("index out of bounds")
       ELSE IF ~is_some(newparent_path) THEN reply_einval("FuseMT_rename")
       ELSE LET path == join(unwrap(parent_path), name)
                newpath == join(unwrap(newparent_path), newname)
                res == target_rename(fs, path, newpath)
            IN IF res.err # "" THEN reply_error("FuseMT_rename", res.err)
               ELSE LET r == rename(inodes, path, newpath) IN
                    IF r.panic # "" THEN Crash(r.panic)
                    ELSE reply_ok("FuseMT_rename", r.t, res.fs,
                                  map_insert(map_remove(dcache, path), newpath, dcache[path]))

FuseMT_link(ino, newparent, newname) ==
    /\ panicked = ""
    /\ CanAlloc(inodes) /\ CanCount(inodes)
    /\ LET path == get_path(inodes, ino)
           newparent_path == get_path(inodes, newparent)
       IN
       IF ~in_table(inodes, ino) THEN Crash("index out of bounds")
       ELSE IF ~is_some(path) THEN reply_einval("FuseMT_link")
       ELSE IF ~in_table(inodes, newparent) THEN Crash("index out of bounds")
       ELSE IF ~is_some(newparent_path) THEN reply_einval("FuseMT_link")
       ELSE LET newpath == join(unwrap(newparent_path), newname)
                res == target_link(fs, unwrap(path), newpath)
            IN IF res.err # "" THEN reply_error("FuseMT_link", res.err)
               ELSE LET a == add(inodes, newpath) IN
                    IF a.panic # "" THEN Crash(a.panic)
                    ELSE reply_entry("FuseMT_link", newpath, a, target_generation, res.fs)


(* ----- handlers that change neither the table nor the target ----- *)
\* getattr, statfs, getxattr, listxattr, open, readlink of the target
target_getattr(f, path) ==
    IF path = Root \/ Exists(f, path) THEN Ok(f) ELSE Err(NoParent(f, path), f)

target_statfs(f, path) == target_getattr(f, path)
target_getxattr(f, path) == target_getattr(f, path)
target_listxattr(f, path) == target_getattr(f, path)
target_open(f, path) == target_getattr(f, path)
target_release(f, path) == Ok(f)

target_readlink(f, path) ==
    IF ~Exists(f, path) THEN Err(NoParent(f, path), f)
    ELSE IF f[path] = "d" THEN Err("EINVAL", f)
    ELSE Ok(f)

\* a handler that hands its callback to the pool
reply_result_on_pool(op, ino) ==
    /\ hist' = KeepRequest([NoOp EXCEPT !.op = op, !.ino = ino, !.cb = <<op>>])
    /\ threads' = [threads EXCEPT !.queue =
                      Append(@, [op |-> op, reply |-> unique,
                                 path |-> unwrap(get_path(inodes, ino)),
                                 data_buf |-> [owned |-> TRUE, bytes |-> ""]])]
    /\ UNCHANGED <<inodes, panicked, allocs, fs, nlookup, dcache,
                   directory_cache, kbuf, handles, sent, unique>>

\* a reply that carries what the callback returned and changes nothing
reply_result(op, ino) ==
    /\ hist' = KeepRequest([NoOp EXCEPT !.op = op, !.ino = ino, !.cb = <<op>>])
    /\ UNCHANGED <<inodes, panicked, allocs, fs, nlookup, dcache, aux>>

\* st_ino as stat_to_fuse of the target leaves it in the FileAttr
stat_ino == 0

\* the FileAttr a successful target.getattr returns
target_attr == [ino |-> stat_ino]

\* reply.attr(ttl, attr)
reply_attr(op, ino, attr) ==
    /\ hist' = KeepRequest([NoOp EXCEPT !.op = op, !.ino = ino, !.rino = attr.ino,
                                        !.cb = <<op>>])
    /\ UNCHANGED <<inodes, panicked, allocs, fs, nlookup, dcache, aux>>

FuseMT_getattr(ino) ==
    /\ panicked = ""
    /\ LET path == get_path(inodes, ino) IN
       IF ~in_table(inodes, ino) THEN Crash("index out of bounds")
       ELSE IF ~is_some(path) THEN reply_einval("FuseMT_getattr")
       ELSE LET res == target_getattr(fs, unwrap(path)) IN
            IF res.err # "" THEN reply_error("FuseMT_getattr", res.err)
            ELSE reply_attr("FuseMT_getattr", ino, [target_attr EXCEPT !.ino = ino])

FuseMT_readlink(ino) ==
    /\ panicked = ""
    /\ LET path == get_path(inodes, ino) IN
       IF ~in_table(inodes, ino) THEN Crash("index out of bounds")
       ELSE IF ~is_some(path) THEN reply_einval("FuseMT_readlink")
       ELSE LET res == target_readlink(fs, unwrap(path)) IN
            IF res.err # "" THEN reply_error("FuseMT_readlink", res.err)
            ELSE reply_result("FuseMT_readlink", ino)

FuseMT_open(ino) ==
    /\ panicked = ""
    /\ LET path == get_path(inodes, ino) IN
       IF ~in_table(inodes, ino) THEN Crash("index out of bounds")
       ELSE IF ~is_some(path) THEN reply_einval("FuseMT_open")
       ELSE LET res == target_open(fs, unwrap(path)) IN
            IF res.err # "" THEN reply_error("FuseMT_open", res.err)
            ELSE reply_result("FuseMT_open", ino)

FuseMT_release(ino) ==
    /\ panicked = ""
    /\ LET path == get_path(inodes, ino) IN
       IF ~in_table(inodes, ino) THEN Crash("index out of bounds")
       ELSE IF ~is_some(path) THEN reply_einval("FuseMT_release")
       ELSE LET res == target_release(fs, unwrap(path)) IN
            IF res.err # "" THEN reply_error("FuseMT_release", res.err)
            ELSE reply_result("FuseMT_release", ino)

\* statfs, getxattr and listxattr take "/" for inode 1 without asking the table
FuseMT_statfs(ino) ==
    /\ panicked = ""
    /\ LET path == IF ino = 1 THEN Some(Root) ELSE get_path(inodes, ino) IN
       IF ino # 1 /\ ~in_table(inodes, ino) THEN Crash("index out of bounds")
       ELSE IF ~is_some(path) THEN reply_einval("FuseMT_statfs")
       ELSE LET res == target_statfs(fs, unwrap(path)) IN
            IF res.err # "" THEN reply_error("FuseMT_statfs", res.err)
            ELSE reply_result("FuseMT_statfs", ino)

FuseMT_getxattr(ino) ==
    /\ panicked = ""
    /\ LET path == IF ino = 1 THEN Some(Root) ELSE get_path(inodes, ino) IN
       IF ino # 1 /\ ~in_table(inodes, ino) THEN Crash("index out of bounds")
       ELSE IF ~is_some(path) THEN reply_einval("FuseMT_getxattr")
       ELSE LET res == target_getxattr(fs, unwrap(path)) IN
            IF res.err # "" THEN reply_error("FuseMT_getxattr", res.err)
            ELSE reply_result("FuseMT_getxattr", ino)

FuseMT_listxattr(ino) ==
    /\ panicked = ""
    /\ LET path == IF ino = 1 THEN Some(Root) ELSE get_path(inodes, ino) IN
       IF ino # 1 /\ ~in_table(inodes, ino) THEN Crash("index out of bounds")
       ELSE IF ~is_some(path) THEN reply_einval("FuseMT_listxattr")
       ELSE LET res == target_listxattr(fs, unwrap(path)) IN
            IF res.err # "" THEN reply_error("FuseMT_listxattr", res.err)
            ELSE reply_result("FuseMT_listxattr", ino)

(* ----- setattr ----- *)
SetattrFields == {"mode", "uid", "gid", "size", "atime", "mtime",
                  "crtime", "chgtime", "bkuptime", "flags"}

\* the sub-operations in the order the handler goes through them
SetattrSteps == <<"chmod", "chown", "truncate", "utimens", "utimens_macos">>

\* the handler's test before each sub-operation
SetattrDue(step, present) ==
    CASE step = "chmod" -> "mode" \in present
      [] step = "chown" -> "uid" \in present \/ "gid" \in present
      [] step = "truncate" -> "size" \in present
      [] step = "utimens" -> "atime" \in present \/ "mtime" \in present
      [] step = "utimens_macos" ->
            \/ "crtime" \in present \/ "chgtime" \in present
            \/ "bkuptime" \in present \/ "flags" \in present

\* the errno the target returns from the callback that fails
target_errno(callback) ==
    CASE callback = "chmod" -> "EPERM"
      [] callback = "chown" -> "EACCES"
      [] callback = "truncate" -> "EFBIG"
      [] callback = "utimens" -> "EROFS"
      [] callback = "utimens_macos" -> "ENOTSUP"
      [] callback = "getattr" -> "ENOENT"

\* the field sets a request is drawn from: up to MaxFields fields, or all of them
MaxFields == 2
SetattrInputs ==
    {p \in SUBSET SetattrFields : Cardinality(p) <= MaxFields} \cup {SetattrFields}

\* callbacks the target may fail, "none" for a target that fails nothing
SetattrFailures ==
    {"none", "getattr"} \cup {SetattrSteps[k] : k \in DOMAIN SetattrSteps}

\* a handler that goes on after a failed sub-operation
RECURSIVE setattr_from_no_stop(_, _, _, _)
setattr_from_no_stop(k, present, fail, cb) ==
    IF k > Len(SetattrSteps)
    THEN [cb |-> Append(cb, "getattr"),
          err |-> IF fail = "none" THEN "" ELSE target_errno(fail)]
    ELSE IF ~SetattrDue(SetattrSteps[k], present)
    THEN setattr_from_no_stop(k + 1, present, fail, cb)
    ELSE setattr_from_no_stop(k + 1, present, fail, Append(cb, SetattrSteps[k]))

\* The callbacks setattr makes from step k on, and the errno it replies ("" for
\* the attributes getattr returned), when the target fails the callback `fail`.
RECURSIVE setattr_from(_, _, _, _)
setattr_from(k, present, fail, cb) ==
    IF k > Len(SetattrSteps)
    THEN [cb |-> Append(cb, "getattr"),
          err |-> IF fail = "getattr" THEN target_errno("getattr") ELSE ""]
    ELSE IF ~SetattrDue(SetattrSteps[k], present)
    THEN setattr_from(k + 1, present, fail, cb)
    ELSE IF fail = SetattrSteps[k]
    THEN [cb |-> Append(cb, SetattrSteps[k]), err |-> target_errno(SetattrSteps[k])]
    ELSE setattr_from(k + 1, present, fail, Append(cb, SetattrSteps[k]))

FuseMT_setattr(ino, present, fail) ==
    /\ panicked = ""
    /\ LET path == get_path(inodes, ino) IN
       IF ~in_table(inodes, ino) THEN Crash("index out of bounds")
       ELSE IF ~is_some(path) THEN reply_einval("FuseMT_setattr")
       ELSE LET r == setattr_from(1, present, fail, <<>>) IN
            /\ hist' = KeepRequest([NoOp EXCEPT !.op = "FuseMT_setattr", !.ino = ino,
                                                !.args = present, !.fail = fail,
                                                !.cb = r.cb, !.err = r.err,
                                                !.rino = IF r.err = "" THEN target_attr.ino
                                                         ELSE 0])
            /\ UNCHANGED <<inodes, panicked, allocs, fs, nlookup, dcache, aux>>

NextAttr ==
    \/ \E present \in SetattrInputs, fail \in SetattrFailures :
          FuseMT_setattr(1, present, fail)
    \/ FuseMT_getattr(1)

SpecAttr == InitTable /\ [][NextAttr]_vars

\* A fresh mount over any contents of the target.
Init ==
    /\ inodes = InodeTable_new
    /\ panicked = ""
    /\ hist = <<>>
    /\ allocs = EmptyBag
    /\ fs \in [Files -> {"-", "f", "d"}]
    /\ nlookup = NoLookups
    /\ dcache = NoNames
    /\ directory_cache = DirectoryCache_new
    /\ threads = ThreadPool_new
    /\ kbuf = <<>>
    /\ handles = NoHandles
    /\ sent = NoReplies
    /\ unique = 0

Next ==
    \/ \E parent \in Known, name \in Names : FuseMT_lookup(parent, name)
    \/ \E ino \in Known \ {1}, n \in 1..MaxLookups : n <= nlookup[ino] /\ FuseMT_forget(ino, n)
    \/ \E name \in Names : FuseMT_mknod(1, name)
    \/ \E name \in Names : FuseMT_mkdir(1, name)
    \/ \E name \in Names : FuseMT_symlink(1, name)
    \/ \E name \in Names : FuseMT_create(1, name)
    \/ \E ino \in Known \ {1}, newname \in Names : FuseMT_link(ino, 1, newname)
    \/ \E name \in Names : Resolved(name) /\ FuseMT_unlink(1, name)
    \/ \E name \in Names : Resolved(name) /\ FuseMT_rmdir(1, name)
    \/ \E name \in Names, newname \in Names : Resolved(name) /\ FuseMT_rename(1, name, 1, newname)

Spec == Init /\ [][Next]_vars

(* ----- DirectoryCache ----- *)
DirectoryCacheEntry_new(fh) == [fh |-> fh, entries |-> None]

\* a cache that hands out the same key again
new_entry_same_key(dc, fh) ==
    [cache |-> [next_key |-> dc.next_key,
                entries |-> map_insert(dc.entries, dc.next_key,
                                       DirectoryCacheEntry_new(fh)),
                issued |-> dc.issued + 1],
     key |-> dc.next_key]

\* self.next_key += Wrapping(1) after the insert under the old key
new_entry(dc, fh) ==
    [cache |-> [next_key |-> (dc.next_key + 1) % KeyModulus,
                entries |-> map_insert(dc.entries, dc.next_key,
                                       DirectoryCacheEntry_new(fh)),
                issued |-> dc.issued + 1],
     key |-> dc.next_key]

\* a cache that answers with the key itself
real_fh_is_key(dc, key) ==
    IF key \in DOMAIN dc.entries
    THEN [panic |-> "", fh |-> key]
    ELSE [panic |-> "no such directory cache key", fh |-> 0]

real_fh(dc, key) ==
    IF key \in DOMAIN dc.entries
    THEN [panic |-> "", fh |-> dc.entries[key].fh]
    ELSE [panic |-> "no such directory cache key", fh |-> 0]

get_mut(dc, key) ==
    IF key \in DOMAIN dc.entries
    THEN [panic |-> "", entry |-> dc.entries[key]]
    ELSE [panic |-> "no such directory cache key", entry |-> DirectoryCacheEntry_new(0)]

\* a cache that never drops an entry
delete_nothing(dc, key) == dc

delete(dc, key) == [dc EXCEPT !.entries = map_remove(dc.entries, key)]

(* ----- directory handlers ----- *)
\* opendir calls that succeed in a run
MaxOpens == 2
\* entries the kernel's reply buffer holds
MaxCap == 2
\* calls of the target's readdir on one handle
MaxCalls == 2

\* handles the target's opendir gives out
TargetFhs == {11, 12}

\* !(1 as Inode): every bit set but the lowest, read as two's complement
unknown_inode == -2

\* the order in which the target lists names
NameOrder == <<"foo", "bar">>

\* opendir of the target: `e` is the errno the system call gives, "" for none
target_opendir(f, path, fh, e) ==
    IF path # Root /\ ~Exists(f, path) THEN [err |-> NoParent(f, path), fh |-> 0]
    ELSE IF path # Root /\ f[path] # "d" THEN [err |-> "ENOTDIR", fh |-> 0]
    ELSE IF e # "" THEN [err |-> e, fh |-> 0]
    ELSE [err |-> "", fh |-> fh]

\* readdir of the target: ".", ".." and the names that exist below path
target_readdir(f, path, fh, e) ==
    IF fh = 0 THEN [err |-> "EINVAL", entries |-> <<>>]
    ELSE IF e # "" THEN [err |-> e, entries |-> <<>>]
    ELSE LET below(n) == Exists(f, join(path, n))
         IN [err |-> "", entries |-> <<".", "..">> \o SelectSeq(NameOrder, below)]

target_releasedir(f, path, fh, e) == [err |-> e]
target_fsyncdir(f, path, fh, e) == [err |-> e]

\* a handler that takes the root for the parent of every directory
Path_parent_is_root(path) == Root

\* Path::parent
Path_parent(path) == SubSeq(path, 1, Len(path) - 1)

\* a handler that keeps nothing of the listing it was given
store_nothing(entry, entries) == entry

\* dcache_entry.entries = Some(entries)
store_entries(entry, entries) == [entry EXCEPT !.entries = Some(entries)]

\* a loop that takes the directory for its own parent
RECURSIVE fill_parent_is_self(_, _, _, _, _, _, _)
fill_parent_is_self(entries, ino, parent_inode, offset, index, capacity, buf) ==
    IF offset + index + 1 > Len(entries) THEN buf
    ELSE LET entry == entries[offset + index + 1]
             entry_inode == IF entry \in {".", ".."} THEN ino ELSE unknown_inode
             buffer_full == Len(buf) >= capacity
         IN IF buffer_full THEN buf
            ELSE fill_parent_is_self(entries, ino, parent_inode, offset, index + 1,
                      capacity,
                      Append(buf, [name |-> entry, ino |-> entry_inode,
                                   next |-> offset + index + 1]))

\* the loop labelling each entry with its own position, not the next one
RECURSIVE fill_own_offset(_, _, _, _, _, _, _)
fill_own_offset(entries, ino, parent_inode, offset, index, capacity, buf) ==
    IF offset + index + 1 > Len(entries) THEN buf
    ELSE IF Len(buf) >= capacity THEN buf
    ELSE fill_own_offset(entries, ino, parent_inode, offset, index + 1, capacity,
              Append(buf, [name |-> entries[offset + index + 1],
                           ino |-> unknown_inode, next |-> offset + index]))

\* The loop over entries.iter().skip(offset).enumerate(): reply.add refuses the
\* entry and returns true when the buffer has no room for it.
RECURSIVE fill(_, _, _, _, _, _, _)
fill(entries, ino, parent_inode, offset, index, capacity, buf) ==
    IF offset + index + 1 > Len(entries) THEN buf
    ELSE LET entry == entries[offset + index + 1]
             entry_inode == IF entry = "." THEN ino
                            ELSE IF entry = ".." THEN parent_inode
                            ELSE unknown_inode
             buffer_full == Len(buf) >= capacity
         IN IF buffer_full THEN buf
            ELSE fill(entries, ino, parent_inode, offset, index + 1, capacity,
                      Append(buf, [name |-> entry, ino |-> entry_inode,
                                   next |-> offset + index + 1]))

\* ghost: what the kernel holds of a handle it was given
\* (ino: the directory it was opened on;
\* calls, failed: calls of the target's readdir and those that failed; next,
\* got, ended: the kernel's pass over the directory; overfull: a reply that
\* carried more than the buffer holds)
NewHandle(fh) ==
    [fh |-> fh, open |-> TRUE, calls |-> 0, failed |-> 0,
     next |-> 0, got |-> <<>>, ended |-> FALSE, overfull |-> FALSE, ino |-> 0]

\* ghost: a released handle, of which the kernel keeps nothing
Released(h) == [NewHandle(h.fh) EXCEPT !.open = FALSE]

\* ghost: an OK reply to readdir, part of the kernel's pass or not
Received(h, pass, out, capacity) ==
    LET seen == [h EXCEPT !.overfull = @ \/ Len(out) > capacity]
    IN IF ~pass THEN seen
       ELSE [seen EXCEPT !.got = h.got \o out,
                         !.next = IF out = <<>> THEN h.next ELSE out[Len(out)].next,
                         !.ended = (out = <<>>)]

FuseMT_opendir(ino, fh, e) ==
    /\ panicked = ""
    /\ LET path == get_path(inodes, ino) IN
       IF ~in_table(inodes, ino) THEN Crash("index out of bounds")
       ELSE IF ~is_some(path) THEN reply_einval("FuseMT_opendir")
       ELSE LET res == target_opendir(fs, unwrap(path), fh, e) IN
            IF res.err # ""
            THEN reply_error("FuseMT_opendir", res.err)
            ELSE LET r == new_entry(directory_cache, res.fh) IN
                 /\ directory_cache' = r.cache
                 /\ handles' = map_insert(handles, r.key,
                                          [NewHandle(res.fh) EXCEPT !.ino = ino])
                 /\ hist' = KeepRequest([NoOp EXCEPT !.op = "FuseMT_opendir",
                                             !.ino = ino, !.fh = r.key,
                                             !.ufh = res.fh,
                                             !.cb = <<"FuseMT_opendir">>])
                 /\ UNCHANGED <<inodes, panicked, allocs, fs, nlookup, dcache,
                                threads, kbuf, sent, unique>>

FuseMT_readdir(ino, fh, offset, capacity, e, pass) ==
    /\ panicked = ""
    /\ LET path == get_path(inodes, ino) IN
       IF ~in_table(inodes, ino) THEN Crash("index out of bounds")
       ELSE IF ~is_some(path) THEN reply_einval("FuseMT_readdir")
       ELSE LET g == get_mut(directory_cache, fh) IN
       IF g.panic # "" THEN Crash(g.panic)
       ELSE LET cached == is_some(g.entry.entries)
                res == IF cached THEN [err |-> "", entries |-> unwrap(g.entry.entries)]
                       ELSE target_readdir(fs, unwrap(path), g.entry.fh, e)
                cb == IF cached THEN <<>> ELSE <<"FuseMT_readdir">>
                ufh == IF cached THEN 0 ELSE g.entry.fh
                calls == IF cached THEN 0 ELSE 1
                rec == [NoOp EXCEPT !.op = "FuseMT_readdir", !.ino = ino, !.fh = fh,
                                    !.cb = cb, !.ufh = ufh]
                called == [handles EXCEPT
                              ![fh].calls = @ + calls,
                              ![fh].failed = IF res.err # "" THEN @ + calls ELSE @]
            IN
            IF res.err # ""
            THEN /\ hist' = KeepRequest([rec EXCEPT !.err = res.err])
                 /\ handles' = called
                 /\ UNCHANGED <<inodes, panicked, allocs, fs, nlookup, dcache,
                                directory_cache, threads, kbuf, sent, unique>>
            ELSE LET stored == IF cached THEN g.entry
                               ELSE store_entries(g.entry, res.entries)
                     cache == [directory_cache EXCEPT !.entries[fh] = stored]
                     parent_inode ==
                         IF ino = 1 THEN Some(ino)
                         ELSE get_inode(inodes, Path_parent(unwrap(path)))
                 IN
                 IF ~is_some(parent_inode)
                 THEN /\ hist' = KeepRequest([rec EXCEPT !.err = "EIO"])
                      /\ directory_cache' = cache
                      /\ handles' = called
                      /\ UNCHANGED <<inodes, panicked, allocs, fs, nlookup, dcache,
                                     threads, kbuf, sent, unique>>
                 ELSE LET out == fill(res.entries, ino, unwrap(parent_inode),
                                      offset, 0, capacity, <<>>)
                      IN /\ hist' = KeepRequest(rec)
                         /\ directory_cache' = cache
                         /\ handles' = [called EXCEPT
                                           ![fh] = Received(@, pass, out, capacity)]
                         /\ UNCHANGED <<inodes, panicked, allocs, fs, nlookup,
                                        dcache, threads, kbuf, sent, unique>>

FuseMT_releasedir(ino, fh, e) ==
    /\ panicked = ""
    /\ LET path == get_path(inodes, ino) IN
       IF ~in_table(inodes, ino) THEN Crash("index out of bounds")
       ELSE IF ~is_some(path) THEN reply_einval("FuseMT_releasedir")
       ELSE LET r == real_fh(directory_cache, fh) IN
       IF r.panic # "" THEN Crash(r.panic)
       ELSE LET res == target_releasedir(fs, unwrap(path), r.fh, e) IN
            /\ hist' = KeepRequest([NoOp EXCEPT !.op = "FuseMT_releasedir",
                                        !.ino = ino, !.fh = fh, !.ufh = r.fh,
                                        !.err = res.err,
                                        !.cb = <<"FuseMT_releasedir">>])
            /\ directory_cache' = delete(directory_cache, fh)
            /\ handles' = [handles EXCEPT ![fh] = Released(@)]
            /\ UNCHANGED <<inodes, panicked, allocs, fs, nlookup, dcache,
                           threads, kbuf, sent, unique>>

FuseMT_fsyncdir(ino, fh, e) ==
    /\ panicked = ""
    /\ LET path == get_path(inodes, ino) IN
       IF ~in_table(inodes, ino) THEN Crash("index out of bounds")
       ELSE IF ~is_some(path) THEN reply_einval("FuseMT_fsyncdir")
       ELSE LET r == real_fh(directory_cache, fh) IN
       IF r.panic # "" THEN Crash(r.panic)
       ELSE LET res == target_fsyncdir(fs, unwrap(path), r.fh, e) IN
            /\ hist' = KeepRequest([NoOp EXCEPT !.op = "FuseMT_fsyncdir",
                                        !.ino = ino, !.fh = fh, !.ufh = r.fh,
                                        !.err = res.err,
                                        !.cb = <<"FuseMT_fsyncdir">>])
            /\ UNCHANGED <<inodes, panicked, allocs, fs, nlookup, dcache, aux>>

\* handles the kernel was given and has not released
OpenHandles == {k \in DOMAIN handles : handles[k].open}

\* errno values a directory call of the target may end with
DirErrnos == {"", "EIO"}

\* The kernel opens the root directory (the target gives a handle it has not
\* out already), reads it at any offset or goes on with its pass from the last
\* next-offset it was given, and releases what it opened.
NextDir ==
    \/ \E fh \in TargetFhs \ {handles[k].fh : k \in OpenHandles}, e \in DirErrnos :
          /\ directory_cache.next_key <= MaxOpens
          /\ FuseMT_opendir(1, fh, e)
    \/ \E k \in OpenHandles, offset \in 0..(Cardinality(Names) + 3),
          capacity \in 1..MaxCap, e \in DirErrnos, pass \in BOOLEAN :
          /\ pass => offset = handles[k].next /\ ~handles[k].ended
          /\ IF is_some(directory_cache.entries[k].entries)
             THEN e = ""
             ELSE handles[k].calls < MaxCalls
          /\ FuseMT_readdir(1, k, offset, capacity, e, pass)
    \/ \E k \in OpenHandles, e \in DirErrnos : FuseMT_releasedir(1, k, e)
    \/ \E k \in OpenHandles, e \in DirErrnos : FuseMT_fsyncdir(1, k, e)

\* a mount over a directory of plain files
InitDir == Init /\ \A p \in Files : fs[p] # "d"

SpecDir == InitDir /\ [][NextDir]_vars

(* ----- a mount that lives until the directory keys wrap ----- *)
\* The kernel opens the root directory again and again, two handles at a time
\* (the target gives 11 when none is open and 12 otherwise), lists the first
\* of them, and releases any of them, until the key counter has gone once
\* around and one key further.
NextWrap ==
    \/ \E fh \in TargetFhs :
          /\ fh = IF OpenHandles = {} THEN 11 ELSE 12
          /\ \A k \in OpenHandles : handles[k].fh # fh
          /\ directory_cache.issued <= KeyModulus
          /\ FuseMT_opendir(1, fh, "")
    \/ \E k \in OpenHandles :
          /\ handles[k].fh = 11
          /\ ~is_some(directory_cache.entries[k].entries)
          /\ FuseMT_readdir(1, k, 0, MaxCap, "", FALSE)
    \/ \E k \in OpenHandles : FuseMT_releasedir(1, k, "")

\* a mount over a directory that holds the file foo
InitWrap == Init /\ fs = [p \in Files |-> IF p = <<"foo">> THEN "f" ELSE "-"]

SpecWrap == InitWrap /\ [][NextWrap]_vars

(* ----- directories below directories ----- *)
\* paths of two names
Nested == {<<a, b>> : a \in Names, b \in Names}

\* a mount over the directory foo, which holds the directory bar and the
\* file foo
InitTree ==
    /\ inodes = InodeTable_new
    /\ panicked = ""
    /\ hist = <<>>
    /\ allocs = EmptyBag
    /\ fs = [p \in Files \cup Nested |->
                IF p \in {<<"foo">>, <<"foo", "bar">>} THEN "d"
                ELSE IF p = <<"foo", "foo">> THEN "f"
                ELSE "-"]
    /\ nlookup = NoLookups
    /\ dcache = NoNames
    /\ directory_cache = DirectoryCache_new
    /\ threads = ThreadPool_new
    /\ kbuf = <<>>
    /\ handles = NoHandles
    /\ sent = NoReplies
    /\ unique = 0

\* lookups down the tree, forgets in any order, and passes over the
\* directories the kernel knows, one open directory at a time
NextTree ==
    \/ \E parent \in Known, name \in Names : FuseMT_lookup(parent, name)
    \/ \E ino \in Known \ {1} : FuseMT_forget(ino, nlookup[ino])
    \/ \E ino \in Known :
          /\ directory_cache.next_key <= MaxOpens
          /\ OpenHandles = {}
          /\ FuseMT_opendir(ino, 11, "")
    \/ \E ino \in Known, k \in OpenHandles, capacity \in 1..MaxCap :
          /\ handles[k].ino = ino
          /\ ~handles[k].ended
          /\ FuseMT_readdir(ino, k, handles[k].next, capacity, "", TRUE)
    \/ \E ino \in Known, k \in OpenHandles :
          handles[k].ino = ino /\ FuseMT_releasedir(ino, k, "")

SpecTree == InitTree /\ [][NextTree]_vars

(* ----- the worker pool ----- *)
\* read, write, flush and fsync requests in a run
MaxReq == 2

\* payloads of write requests; every other request leaves the buffer empty
Bytes == {"a", "b"}
NoBytes == ""

\* what the target's read, write, flush or fsync returns: "" for Ok
PoolErrnos == {"", "EIO"}

PoolOps == {"FuseMT_read", "FuseMT_write", "FuseMT_flush", "FuseMT_fsync"}

\* a write that keeps the slice of the kernel's buffer
slice_kept(data) == [owned |-> FALSE, bytes |-> NoBytes]

\* Vec::from(data): an owned copy of the slice
Vec_from(data) == [owned |-> TRUE, bytes |-> data]

\* what the closure finds in data_buf when it runs
read_data(data_buf, buffer) ==
    IF data_buf.owned THEN data_buf.bytes ELSE buffer

\* a pool that loses the closure
execute_nothing(pool, task) == pool

\* ThreadPool::execute: the closure joins the queue
execute(pool, task) == [pool EXCEPT !.queue = Append(@, task)]

\* ghost: the kernel's account of a request handed to the pool
NewRequest(op, ino, path, data) ==
    [op |-> op, ino |-> ino, path |-> path, data |-> data,
     called |-> <<>>, returned |-> <<>>, replies |-> <<>>]

\* a reply that goes out on the handle of the newest request
send_to_latest(ledger, handle, r) ==
    LET newest == CHOOSE u \in DOMAIN ledger : \A v \in DOMAIN ledger : v <= u
    IN [ledger EXCEPT ![newest].replies = Append(@, r)]

\* reply.data / reply.written / reply.ok / reply.error on the closure's reply
send(ledger, handle, r) == [ledger EXCEPT ![handle].replies = Append(@, r)]

\* get_path!, then the closure with its moved path, reply and data is queued
Dispatch(op, ino, data, data_buf) ==
    /\ panicked = ""
    /\ LET path == get_path(inodes, ino) IN
       IF ~in_table(inodes, ino) THEN Crash("index out of bounds")
       ELSE IF ~is_some(path) THEN reply_einval(op)
       ELSE LET task == [op |-> op, reply |-> unique + 1, path |-> unwrap(path),
                         data_buf |-> data_buf]
            IN /\ threads' = execute(threads, task)
               /\ unique' = unique + 1
               /\ kbuf' = data
               /\ sent' = map_insert(sent, unique + 1,
                                     NewRequest(op, ino, unwrap(path), data))
               /\ hist' = KeepRequest([NoOp EXCEPT !.op = op, !.ino = ino])
               /\ UNCHANGED <<inodes, panicked, allocs, fs, nlookup, dcache,
                              directory_cache, handles>>

FuseMT_read(ino) == Dispatch("FuseMT_read", ino, NoBytes, Vec_from(NoBytes))

FuseMT_write(ino, data) == Dispatch("FuseMT_write", ino, data, Vec_from(data))

FuseMT_flush(ino) == Dispatch("FuseMT_flush", ino, NoBytes, Vec_from(NoBytes))

FuseMT_fsync(ino) == Dispatch("FuseMT_fsync", ino, NoBytes, Vec_from(NoBytes))

\* a pool whose idle worker takes the closure queued last
WorkerCall_newest_first ==
    /\ panicked = ""
    /\ threads.queue # <<>>
    /\ Cardinality(threads.running) < threads.size
    /\ LET task == threads.queue[Len(threads.queue)] IN
       /\ threads' = [threads EXCEPT !.queue = SubSeq(@, 1, Len(@) - 1),
                                       !.running = @ \cup {task}]
       /\ sent' = [sent EXCEPT ![task.reply].called =
                      Append(@, [path |-> task.path,
                                 buffer |-> IF task.op = "FuseMT_write"
                                            THEN kbuf ELSE NoBytes,
                                 data |-> read_data(task.data_buf, kbuf),
                                 now |-> get_path(inodes, sent[task.reply].ino)])]
    /\ UNCHANGED <<inodes, panicked, hist, allocs, fs, nlookup, dcache,
                   directory_cache, kbuf, handles, unique>>

\* a closure that asks the table for the inode's path when it runs
WorkerCall_resolves_late ==
    /\ panicked = ""
    /\ threads.queue # <<>>
    /\ Cardinality(threads.running) < threads.size
    /\ LET task == Head(threads.queue)
           now == get_path(inodes, sent[task.reply].ino)
       IN
       /\ threads' = [threads EXCEPT !.queue = Tail(@),
                                       !.running = @ \cup {task}]
       /\ sent' = [sent EXCEPT ![task.reply].called =
                      Append(@, [path |-> IF is_some(now) THEN unwrap(now)
                                          ELSE task.path,
                                 buffer |-> IF task.op = "FuseMT_write"
                                            THEN kbuf ELSE NoBytes,
                                 data |-> read_data(task.data_buf, kbuf),
                                 now |-> now])]
    /\ UNCHANGED <<inodes, panicked, hist, allocs, fs, nlookup, dcache,
                   directory_cache, kbuf, handles, unique>>

\* (now is a ghost: the path the table holds for the inode at that moment)
\* an idle worker takes the oldest closure and enters the target's callback
WorkerCall ==
    /\ panicked = ""
    /\ threads.queue # <<>>
    /\ Cardinality(threads.running) < threads.size
    /\ LET task == Head(threads.queue) IN
       /\ threads' = [threads EXCEPT !.queue = Tail(@),
                                       !.running = @ \cup {task}]
       /\ sent' = [sent EXCEPT ![task.reply].called =
                      Append(@, [path |-> task.path,
                                 buffer |-> IF task.op = "FuseMT_write"
                                            THEN kbuf ELSE NoBytes,
                                 data |-> read_data(task.data_buf, kbuf),
                                 now |-> get_path(inodes, sent[task.reply].ino)])]
    /\ UNCHANGED <<inodes, panicked, hist, allocs, fs, nlookup, dcache,
                   directory_cache, kbuf, handles, unique>>

\* a worker that takes its path out of the table when it has replied
WorkerReply_drops_path(task, r) ==
    /\ panicked = ""
    /\ task \in threads.running
    /\ threads' = [threads EXCEPT !.running = @ \ {task}]
    /\ sent' = send([sent EXCEPT ![task.reply].returned = Append(@, r)],
                    task.reply, r)
    /\ inodes' = unlink(inodes, task.path)
    /\ UNCHANGED <<panicked, hist, allocs, fs, nlookup, dcache,
                   directory_cache, kbuf, handles, unique>>

\* the callback returns r and the worker replies it on the closure's handle
WorkerReply(task, r) ==
    /\ panicked = ""
    /\ task \in threads.running
    /\ threads' = [threads EXCEPT !.running = @ \ {task}]
    /\ sent' = send([sent EXCEPT ![task.reply].returned = Append(@, r)],
                    task.reply, r)
    /\ UNCHANGED <<inodes, panicked, hist, allocs, fs, nlookup, dcache,
                   directory_cache, kbuf, handles, unique>>

\* The kernel looks names up and sends file requests on the inodes it was given
\* for them, while the workers run.
NextPool ==
    \/ \E name \in Names : FuseMT_lookup(1, name)
    \/ \E ino \in Known \ {1} : unique < MaxReq /\ FuseMT_read(ino)
    \/ \E ino \in Known \ {1}, data \in Bytes :
          unique < MaxReq /\ FuseMT_write(ino, data)
    \/ \E ino \in Known \ {1} : unique < MaxReq /\ FuseMT_flush(ino)
    \/ \E ino \in Known \ {1} : unique < MaxReq /\ FuseMT_fsync(ino)
    \/ \E ino \in Known : FuseMT_getattr(ino)
    \/ \E ino \in Known \ {1} : FuseMT_release(ino)
    \/ WorkerCall
    \/ \E task \in threads.running, r \in PoolErrnos : WorkerReply(task, r)

\* a mount over a directory that holds the file foo
InitPool == Init /\ fs = [p \in Files |-> IF p = <<"foo">> THEN "f" ELSE "-"]

SpecPool == InitPool /\ [][NextPool]_vars

(* ----- workers that are scheduled fairly, callbacks that return ----- *)
\* the callback of request u returns and its worker replies
ReplyOf(u) ==
    \E task \in threads.running, r \in PoolErrnos :
        task.reply = u /\ WorkerReply(task, r)

\* An idle worker that could take a closure from the queue does so in the end,
\* and a callback that was entered returns in the end.
SpecFair ==
    /\ InitPool
    /\ [][NextPool]_vars
    /\ WF_vars(WorkerCall)
    /\ \A u \in 1..MaxReq : WF_vars(ReplyOf(u))

(* ----- the dispatch thread changing the table while the workers run ----- *)
\* file requests in a run in which the table changes under them
MaxRace == 1

\* The kernel looks names up, forgets, renames and unlinks them, and sends file
\* requests on the inodes it holds, while the workers run.
NextRace ==
    \/ \E name \in Names : FuseMT_lookup(1, name)
    \/ \E ino \in Known \ {1} : FuseMT_forget(ino, nlookup[ino])
    \/ \E name \in Names, newname \in Names :
          Resolved(name) /\ FuseMT_rename(1, name, 1, newname)
    \/ \E name \in Names : Resolved(name) /\ FuseMT_unlink(1, name)
    \/ \E ino \in Known \ {1} : unique < MaxRace /\ FuseMT_read(ino)
    \/ \E ino \in Known \ {1} : unique < MaxRace /\ FuseMT_write(ino, "a")
    \/ \E ino \in Known \ {1} : unique < MaxRace /\ FuseMT_flush(ino)
    \/ \E ino \in Known \ {1} : unique < MaxRace /\ FuseMT_fsync(ino)
    \/ WorkerCall
    \/ \E task \in threads.running : WorkerReply(task, "")

SpecRace == InitPool /\ [][NextRace]_vars

(* ----- FuseMT::new with any pool size ----- *)
\* what ThreadPool::new(0) of the threadpool crate leaves behind: the crate
\* asserts num_threads >= 1; a pool built without the assertion has no worker
PoolOfNone == {"assertion failed: num_threads >= 1", ""}

\* FuseMT::new(target_fs, num_threads) for num_threads from 0 up
InitSized ==
    /\ inodes = InodeTable_new
    /\ hist = <<>>
    /\ allocs = EmptyBag
    /\ fs = [p \in Files |-> IF p = <<"foo">> THEN "f" ELSE "-"]
    /\ nlookup = NoLookups
    /\ dcache = NoNames
    /\ directory_cache = DirectoryCache_new
    /\ kbuf = <<>>
    /\ handles = NoHandles
    /\ sent = NoReplies
    /\ unique = 0
    /\ \E num_threads \in 0..NumThreads :
          /\ threads = ThreadPool_of(num_threads)
          /\ IF num_threads = 0 THEN panicked \in PoolOfNone ELSE panicked = ""

SpecSized == InitSized /\ [][NextPool]_vars


(* ----- requests on inodes the table cannot resolve ----- *)
\* an inode number whose slot holds no path, or that has no slot
Unresolvable(i) ==
    IF in_table(inodes, i) THEN ~is_some(get_path(inodes, i)) ELSE TRUE

Unresolvables == {i \in InodeArgs : Unresolvable(i)}

\* The kernel looks names up and forgets them, which empties slots, and a
\* transport that does not keep to the protocol addresses every operation to
\* inode numbers that cannot be resolved.
NextStale ==
    \/ \E name \in Names : FuseMT_lookup(1, name)
    \/ \E ino \in Known \ {1} : FuseMT_forget(ino, nlookup[ino])
    \/ \E parent \in Unresolvables, name \in Names : FuseMT_lookup(parent, name)
    \/ \E ino \in Unresolvables : FuseMT_forget(ino, 1)
    \/ \E ino \in Unresolvables : FuseMT_getattr(ino)
    \/ \E ino \in Unresolvables, present \in {{}, {"mode"}} :
          FuseMT_setattr(ino, present, "none")
    \/ \E ino \in Unresolvables : FuseMT_readlink(ino)
    \/ \E parent \in Unresolvables, name \in Names : FuseMT_mknod(parent, name)
    \/ \E parent \in Unresolvables, name \in Names : FuseMT_mkdir(parent, name)
    \/ \E parent \in Unresolvables, name \in Names : FuseMT_unlink(parent, name)
    \/ \E parent \in Unresolvables, name \in Names : FuseMT_rmdir(parent, name)
    \/ \E parent \in Unresolvables, name \in Names : FuseMT_symlink(parent, name)
    \/ \E parent \in InodeArgs, newparent \in InodeArgs, name \in Names :
          /\ Unresolvable(parent) \/ Unresolvable(newparent)
          /\ FuseMT_rename(parent, name, newparent, name)
    \/ \E ino \in InodeArgs, newparent \in InodeArgs, name \in Names :
          /\ Unresolvable(ino) \/ Unresolvable(newparent)
          /\ FuseMT_link(ino, newparent, name)
    \/ \E ino \in Unresolvables : FuseMT_open(ino)
    \/ \E ino \in Unresolvables : FuseMT_read(ino)
    \/ \E ino \in Unresolvables, data \in Bytes : FuseMT_write(ino, data)
    \/ \E ino \in Unresolvables : FuseMT_flush(ino)
    \/ \E ino \in Unresolvables : FuseMT_release(ino)
    \/ \E ino \in Unresolvables : FuseMT_fsync(ino)
    \/ \E ino \in Unresolvables, fh \in TargetFhs : FuseMT_opendir(ino, fh, "")
    \/ \E ino \in Unresolvables : FuseMT_readdir(ino, 1, 0, 1, "", FALSE)
    \/ \E ino \in Unresolvables : FuseMT_releasedir(ino, 1, "")
    \/ \E ino \in Unresolvables : FuseMT_fsyncdir(ino, 1, "")
    \/ \E ino \in Unresolvables : FuseMT_statfs(ino)
    \/ \E ino \in Unresolvables : FuseMT_getxattr(ino)
    \/ \E ino \in Unresolvables : FuseMT_listxattr(ino)
    \/ \E parent \in Unresolvables, name \in Names : FuseMT_create(parent, name)

SpecStale == Init /\ [][NextStale]_vars

(* ----- the requests that change the inode table, answered either way ----- *)
\* The requests of a mount (Next), and the same requests sent with a parent
\* or an inode that the table cannot resolve.
NextReplies ==
    \/ Next
    \/ \E parent \in Unresolvables, name \in Names : FuseMT_lookup(parent, name)
    \/ \E parent \in Unresolvables, name \in Names : FuseMT_mknod(parent, name)
    \/ \E parent \in Unresolvables, name \in Names : FuseMT_unlink(parent, name)
    \/ \E parent \in Unresolvables \cup {1}, newparent \in Unresolvables \cup {1},
          name \in Names :
          /\ Unresolvable(parent) \/ Unresolvable(newparent)
          /\ FuseMT_rename(parent, name, newparent, name)
    \/ \E ino \in Known \ {1}, newparent \in Unresolvables, name \in Names :
          FuseMT_link(ino, newparent, name)

SpecReplies == Init /\ [][NextReplies]_vars




(***************************************************************************)
(* Properties of the inode table                                           *)
(***************************************************************************)
Slots == 1..Len(inodes.table)
Last == hist[1]
Called(op) == panicked = "" /\ hist # <<>> /\ hist[1].op = op

\* A slot that keeps a path which by_path does not map to it.
Detached(i) ==
    /\ is_some(get_path(inodes, i))
    /\ get_inode(inodes, unwrap(get_path(inodes, i))) # Some(i)

\* C1 (as stated): every slot whose path is Some(p) is the slot by_path maps p
\* to, i.e. by_path[p] = idx and table[idx].path = Some(p) for every such slot.
C1_EverySlotMapped ==
    \A i \in Slots :
        is_some(inodes.table[i].path) =>
            LET p == unwrap(inodes.table[i].path) IN
            /\ p \in DOMAIN inodes.by_path
            /\ inodes.by_path[p] = i - 1
            /\ inodes.table[inodes.by_path[p] + 1].path = Some(p)

\* C1 (amended): by_path is an injective partial inverse of the slots' paths:
\* whenever by_path[p] = idx, idx is a slot of the table and table[idx].path is
\* Some(p), so no two paths map to one slot.  A slot may keep a path by_path no
\* longer maps to it (after unlink, or when a rename onto its path displaced it).
C1_ByPathInverse ==
    /\ \A p \in DOMAIN inodes.by_path :
          /\ inodes.by_path[p] + 1 \in Slots
          /\ get_path(inodes, inodes.by_path[p] + 1) = Some(p)
    /\ \A p, q \in DOMAIN inodes.by_path :
          inodes.by_path[p] = inodes.by_path[q] => p = q

C1_Witness ==
    /\ Called("rename")
    /\ Last.path # Last.path2
    /\ \E i \in Slots : i # Last.rino /\ Detached(i)
                        /\ get_path(inodes, i) = Last.path2

\* C2: with insertions, lookup and forget only, every live inode i (get_path(i)
\* is Some) is the inode its own path maps to: get_inode(get_path(i)) = i.
C2_RoundTrip ==
    \A i \in Slots :
        is_some(get_path(inodes, i))
            => get_inode(inodes, unwrap(get_path(inodes, i))) = Some(i)

C2_Witness ==
    /\ Called("forget") /\ Last.rcnt = 0 /\ Last.ino # 1
    /\ \E i, j \in Slots : i # j /\ is_some(get_path(inodes, i))
                                 /\ is_some(get_path(inodes, j))

\* The calls add(p) -> (i, g) ; forget(i, 1) -> 0 [; add(q), q # p] just happened.
AddForget == panicked = "" /\ Len(hist) = 2 /\ hist[1].n = 1 /\ hist[1].rcnt = 0
AddForgetAdd ==
    /\ panicked = "" /\ Len(hist) = 3
    /\ hist[2].n = 1 /\ hist[2].rcnt = 0
    /\ hist[1].path # hist[3].path

ReusedWithNewGeneration ==
    /\ hist[1].rino = hist[3].rino
    /\ hist[1].rgen > hist[3].rgen
    /\ get_path(inodes, hist[3].rino) = hist[1].path

\* C3 (as stated): after add(p) returns i and forget(i, 1) brings the count to
\* zero, get_path(i) is None, and the next add(q), q # p, returns inode i again
\* with a strictly greater generation, and get_path(i) = q.
C3_NextAddReuses ==
    /\ AddForget => get_path(inodes, hist[2].rino) = None
    /\ AddForgetAdd => ReusedWithNewGeneration

\* C3 (amended): the same, provided no other slot was waiting on the free list
\* when i was freed (the free list is FIFO: the next add takes its oldest slot,
\* which is i exactly when the free list held nothing before the forget).
C3_NextAddReusesOldestFree ==
    /\ AddForget => get_path(inodes, hist[2].rino) = None
    /\ AddForgetAdd /\ hist[2].qlen = 1 => ReusedWithNewGeneration

C3_Witness ==
    /\ AddForgetAdd /\ hist[2].qlen = 1
    /\ ReusedWithNewGeneration

\* C4: no two allocations return the same (inode, generation) pair.
C4_AllocationsDistinct ==
    \A e \in BagToSet(allocs) : CopiesIn(e, allocs) = 1

C4_Witness ==
    \E i \in Slots, g \in 0..MaxGen :
        BagIn(<<i, g>>, allocs) /\ BagIn(<<i, g + 1>>, allocs)

\* C7 (as stated): after rename(a, b) of a path a mapped to inode i_a,
\* get_inode(a) = None, get_inode(b) = i_a and get_path(i_a) = b.
RenameMoved ==
    /\ get_inode(inodes, unwrap(Last.path)) = None
    /\ get_inode(inodes, unwrap(Last.path2)) = Some(Last.rino)
    /\ get_path(inodes, Last.rino) = Last.path2

C7_Rename == Called("rename") => RenameMoved

\* C7 (amended): the same for b # a; rename(a, a) leaves a mapped to i_a.
C7_RenameDistinct ==
    /\ Called("rename") /\ Last.path # Last.path2 => RenameMoved
    /\ Called("rename") /\ Last.path = Last.path2 =>
          /\ get_inode(inodes, unwrap(Last.path)) = Some(Last.rino)
          /\ get_path(inodes, Last.rino) = Last.path

C7_Witness == Called("rename") /\ Last.path # Last.path2 /\ RenameMoved

\* The step just taken is a forget that brought inode i to zero.
ForgotToZero(i) ==
    hist' # <<>> /\ hist'[1].op = "forget" /\ hist'[1].ino = i /\ hist'[1].rcnt = 0

\* A slot that by_path no longer maps keeps its path until its own forget.
DetachedPathKept ==
    \A i \in Slots :
        Detached(i) /\ panicked' = "" /\ ~ForgotToZero(i)
            => i <= Len(inodes'.table) /\ get_path(inodes', i) = get_path(inodes, i)

UnlinkedKeepsPath ==
    Called("unlink") /\ Last.rino # 0 =>
        /\ get_inode(inodes, unwrap(Last.path)) = None
        /\ get_path(inodes, Last.rino) = Last.path

ForgottenHasNoPath ==
    Called("forget") /\ Last.ino # 1 /\ Last.rcnt = 0 => get_path(inodes, Last.ino) = None

\* C8: after unlink(p) of a path mapped to inode i, get_inode(p) = None and
\* get_path(i) = Some(p); get_path(i) stays Some(p) over every later call until
\* a forget brings i's lookup count to zero, and then get_path(i) = None.
C8_Tombstone ==
    /\ [](UnlinkedKeepsPath /\ ForgottenHasNoPath)
    /\ [][DetachedPathKept]_vars

C8_Witness ==
    /\ Called("unlink") /\ Last.rino > 1
    /\ get_inode(inodes, unwrap(Last.path)) = None
    /\ get_path(inodes, Last.rino) = Last.path

\* C9: inode 1 is never recycled: forget(1, n) returns 1 and changes nothing
\* for every n, lookup(1) changes nothing, index 0 is never on the free list,
\* and no allocation returns inode 1.
C9_RootImmortal ==
    /\ \A n \in 0..(MaxLookups + 1) :
          forget(inodes, 1, n) = [t |-> inodes, lookups |-> 1, panic |-> ""]
    /\ lookup(inodes, 1) = [t |-> inodes, panic |-> ""]
    /\ Called("forget") /\ Last.ino = 1 => Last.rcnt = 1
    /\ \A k \in 1..Len(inodes.free_list) : inodes.free_list[k] # 0
    /\ \A e \in BagToSet(allocs) : e[1] # 1
    /\ is_some(get_path(inodes, 1))

C9_Witness ==
    /\ Called("forget") /\ Last.ino = 1 /\ Last.n > 0 /\ Last.rcnt = 1
    /\ inodes.free_list # <<>>
    /\ \E e \in BagToSet(allocs) : e[2] > 0

(***************************************************************************)
(* Properties of the dispatcher                                            *)
(***************************************************************************)
FreeSlots == {inodes.free_list[k] + 1 : k \in 1..Len(inodes.free_list)}

\* C5: the table's lookup count of every non-root inode is the number of entry
\* replies that returned it minus the forget counts applied to it (the kernel's
\* count nlookup), its slot is on the free list exactly when that number is
\* zero, and a lookup that inserts a fresh path leaves the entry with count 1.
C5_LookupCounts ==
    /\ \A i \in Slots \ {1} :
          /\ inodes.table[i].lookups = nlookup[i]
          /\ i \in FreeSlots <=> nlookup[i] = 0
    /\ \A i \in DOMAIN nlookup \ Slots : nlookup[i] = 0
    /\ Called("FuseMT_lookup") /\ Last.err = "" /\ Last.n = 1
          => inodes.table[Last.rino].lookups = 1

\* two entry replies returned an inode and one forget of 2 freed its slot
C5_Witness ==
    /\ Called("FuseMT_forget") /\ Last.n = 2 /\ Last.rcnt = 0
    /\ Last.ino \in FreeSlots /\ nlookup[Last.ino] = 0
    /\ inodes.table[Last.ino].lookups = 0

\* C6 (as stated): no sequence of kernel requests that respects the protocol
\* reaches a fatal condition of the inode table: the dispatcher never panics.
C6_NoFatalCondition == panicked = ""

\* C10 (as stated): on a fresh mount, lookup(/foo) is answered with ino 2 and
\* generation 0, and after forget(2, 1) the entry reply to lookup(/bar) carries
\* attr.ino = 2 and generation 1, the table's generation of the reused slot.
C10_ReplyGeneration ==
    /\ panicked = "" /\ hist # <<>> /\ hist[Len(hist)].seq = 1
       /\ hist[Len(hist)].op = "FuseMT_lookup" /\ hist[Len(hist)].path = Some(<<"foo">>)
          => hist[Len(hist)].rino = 2 /\ hist[Len(hist)].rgen = 0
    /\ panicked = "" /\ Len(hist) = 3 /\ hist[3].path = Some(<<"foo">>)
       /\ hist[1].path = Some(<<"bar">>)
          => /\ hist[1].rino = 2
             /\ hist[1].rgen = inodes.table[2].generation
             /\ hist[1].rgen = 1

(***************************************************************************)
(* Properties of the setattr splitter                                      *)
(***************************************************************************)
\* the sub-operation each field of the request belongs to
SubOperationOf ==
    [f \in SetattrFields |->
        CASE f = "mode" -> "chmod"
          [] f \in {"uid", "gid"} -> "chown"
          [] f = "size" -> "truncate"
          [] f \in {"atime", "mtime"} -> "utimens"
          [] OTHER -> "utimens_macos"]

FixedOrder == <<"chmod", "chown", "truncate", "utimens", "utimens_macos", "getattr">>

\* the sub-operations of the present fields in the fixed order, then getattr
WantedCalls(present) ==
    LET wanted(c) == c = "getattr" \/ \E f \in present : SubOperationOf[f] = c
    IN SelectSeq(FixedOrder, wanted)

\* ... cut after the first call that fails
RECURSIVE UpToFailure(_, _)
UpToFailure(calls, fail) ==
    IF calls = <<>> THEN <<>>
    ELSE IF Head(calls) = fail THEN <<fail>>
    ELSE <<Head(calls)>> \o UpToFailure(Tail(calls), fail)

\* C12: a setattr that resolved its path invokes exactly the sub-operations of
\* the present fields in the order chmod, chown, truncate, utimens,
\* utimens_macos, stops at the first that fails and replies its error with no
\* later sub-operation and no getattr; when none fails it calls getattr once,
\* last, and replies getattr's result.
C12_SetattrSplitter ==
    (Called("FuseMT_setattr") /\ Last.err # "EINVAL") =>
        LET wanted == WantedCalls(Last.args)
            failed == \E k \in DOMAIN wanted : wanted[k] = Last.fail
        IN /\ Last.cb = UpToFailure(wanted, Last.fail)
           /\ Last.err = IF failed THEN target_errno(Last.fail) ELSE ""
           /\ Cardinality({k \in DOMAIN Last.cb : Last.cb[k] = "getattr"})
                 = IF failed /\ Last.fail # "getattr" THEN 0 ELSE 1

\* every field present and truncate failing: chmod, chown, truncate and no more
C12_Witness ==
    /\ Called("FuseMT_setattr")
    /\ Last.args = SetattrFields
    /\ Last.fail = "truncate"
    /\ Last.cb = <<"chmod", "chown", "truncate">>
    /\ Last.err = "EFBIG"

(***************************************************************************)
(* Properties of the directory cache                                       *)
(***************************************************************************)
Listing(k) == directory_cache.entries[k].entries

\* C13: on every open handle, what the kernel's pass from offset 0 has been
\* given is the cached listing from its start, each entry once and in list
\* order, the entry at list position j - 1 labelled with next-offset j; no
\* reply carries more than the buffer holds; and the pass has been answered
\* with an empty OK reply only when its offset had reached the listing's length.
C13_Pagination ==
    \A k \in OpenHandles :
        LET h == handles[k] IN
        /\ ~h.overfull
        /\ ~is_some(Listing(k)) => h.got = <<>> /\ h.next = 0 /\ ~h.ended
        /\ is_some(Listing(k)) =>
              LET entries == unwrap(Listing(k)) IN
              /\ Len(h.got) = h.next
              /\ h.next <= Len(entries)
              /\ \A j \in DOMAIN h.got :
                    h.got[j].name = entries[j] /\ h.got[j].next = j
              /\ h.ended => h.next = Len(entries)

\* a pass over ".", "..", "foo", "bar" that has come to its end
C13_Witness ==
    \E k \in OpenHandles :
        /\ handles[k].ended
        /\ Len(handles[k].got) = 4
        /\ handles[k].got[4] = [name |-> "bar", ino |-> unknown_inode, next |-> 4]

\* C14 as the specification words it: the target's readdir is called at most
\* once on a handle.
C14_CalledOnce ==
    \A k \in OpenHandles : handles[k].calls <= 1

\* C14: on every open handle the target's readdir has returned a listing at
\* most once, the cache entry holds a listing exactly when it has, and a
\* readdir on a handle whose listing is held calls nothing; only calls that
\* failed, which leave the entry empty, are repeated.
C14_FetchedOnce ==
    [][\A k \in OpenHandles' :
          /\ handles'[k].calls - handles'[k].failed <= 1
          /\ is_some(directory_cache'.entries[k].entries)
                <=> handles'[k].calls - handles'[k].failed = 1
          /\ (k \in OpenHandles /\ is_some(Listing(k))) =>
                /\ handles'[k].calls = handles[k].calls
                /\ directory_cache'.entries[k] = directory_cache.entries[k]]_vars

\* a readdir answered from the listing fetched by an earlier readdir
C14_Witness ==
    /\ Called("FuseMT_readdir")
    /\ Last.cb = <<>>
    /\ Last.err = ""
    /\ Last.fh \in OpenHandles
    /\ handles[Last.fh].calls = 1
    /\ handles[Last.fh].next = 4

RequestWas(op) == panicked' = "" /\ hist' # <<>> /\ hist'[1].op = op

\* C15: an opendir the target answers with fh adds one cache entry under a
\* key that was not in the cache, holding fh and no listing, and replies that
\* key; an opendir the target fails leaves the cache as it was; and whenever
\* readdir, fsyncdir or releasedir calls the target it passes the fh that the
\* target's opendir returned for that key.
C15_HandleTranslation ==
    [][ /\ (RequestWas("FuseMT_opendir") /\ hist'[1].err = "") =>
              /\ hist'[1].fh = directory_cache.next_key
              /\ hist'[1].fh \notin DOMAIN directory_cache.entries
              /\ directory_cache'.entries =
                    map_insert(directory_cache.entries, hist'[1].fh,
                               [fh |-> hist'[1].ufh, entries |-> None])
        /\ (RequestWas("FuseMT_opendir") /\ hist'[1].err # "") =>
              directory_cache' = directory_cache
        /\ \A op \in {"FuseMT_readdir", "FuseMT_fsyncdir", "FuseMT_releasedir"} :
              (RequestWas(op) /\ hist'[1].cb # <<>>) =>
                  /\ hist'[1].fh \in OpenHandles
                  /\ hist'[1].ufh = handles[hist'[1].fh].fh ]_vars

\* fsyncdir on the second key reaches the target with the handle it gave
C15_Witness ==
    /\ Called("FuseMT_fsyncdir")
    /\ Last.fh = 2
    /\ Last.ufh = 11
    /\ handles[1].fh = 12
    /\ handles[1].open

\* C16: a releasedir on a key that opendir created calls the target's
\* releasedir with the stored handle and leaves the cache without the key,
\* whatever the target returns; the cache's keys are always the handles
\* opened and not yet released.
C16_CacheIsOpenHandles ==
    /\ DOMAIN directory_cache.entries = OpenHandles
    /\ Called("FuseMT_releasedir") =>
          /\ Last.cb = <<"FuseMT_releasedir">>
          /\ Last.ufh = handles[Last.fh].fh
          /\ Last.fh \notin DOMAIN directory_cache.entries

\* a releasedir the target failed, with another handle still open
C16_Witness ==
    /\ Called("FuseMT_releasedir")
    /\ Last.err = "EIO"
    /\ Last.fh = 1
    /\ DOMAIN directory_cache.entries = {2}

(***************************************************************************)
(* Properties of the worker pool                                           *)
(***************************************************************************)
Queued(u) == \E j \in DOMAIN threads.queue : threads.queue[j].reply = u
Running(u) == \E task \in threads.running : task.reply = u

\* C17: a request handed to the pool has no reply while its closure is queued
\* or running, and from then on exactly one: the value its own callback
\* returned, unchanged, whatever the order in which the workers finish; its
\* callback is entered at most once.
C17_OneReplyEach ==
    \A u \in DOMAIN sent :
        /\ Len(sent[u].called) <= 1
        /\ Len(sent[u].replies) <= 1
        /\ sent[u].replies = sent[u].returned
        /\ (Queued(u) \/ Running(u)) <=> sent[u].replies = <<>>
        /\ Queued(u) <=> sent[u].called = <<>>

\* the second request is answered with its callback's error while the
\* callback of the first has not returned
C17_Witness ==
    /\ 2 \in DOMAIN sent
    /\ sent[2].returned = <<"EIO">>
    /\ sent[2].replies = <<"EIO">>
    /\ Running(1)
    /\ sent[1].replies = <<>>

\* the step hands a request of this kind to the pool
Handed(op) == unique' = unique + 1 /\ sent'[unique'].op = op

\* C18: a closure joins the pool's queue only in the dispatch of a read, write,
\* flush or fsync, each of which queues one; every other request is answered
\* by the dispatcher's own step with the pool untouched; and no step of a
\* worker changes the inode table or the directory cache.
C18_OnlyFileIoOnPool ==
    [][ /\ Len(threads'.queue) > Len(threads.queue) =>
              /\ \E op \in PoolOps : Handed(op) /\ RequestWas(op)
              /\ Len(threads'.queue) = Len(threads.queue) + 1
        /\ unique' # unique =>
              Len(threads'.queue) = Len(threads.queue) + 1
        /\ (hist' # hist /\ hist'[1].op \notin PoolOps) =>
              threads' = threads /\ sent' = sent
        /\ (threads'.running # threads.running \/ (sent' # sent /\ unique' = unique)) =>
              /\ inodes' = inodes
              /\ directory_cache' = directory_cache
              /\ hist' = hist ]_vars

\* the dispatcher counts a second lookup in the table while one closure runs
\* and another waits
C18_Witness ==
    /\ Called("FuseMT_lookup")
    /\ Last.err = ""
    /\ inodes.table[2].lookups = 2
    /\ threads.running # {}
    /\ threads.queue # <<>>

\* C19: the bytes a write closure passes to the target are the bytes the
\* kernel's buffer held when the write was dispatched.
C19_WriteDataCopied ==
    \A u \in DOMAIN sent :
        (sent[u].op = "FuseMT_write" /\ sent[u].called # <<>>) =>
            sent[u].called[1].data = sent[u].data

\* the buffer held a later request's bytes when the write's callback ran
C19_Witness ==
    \E u \in DOMAIN sent :
        /\ sent[u].op = "FuseMT_write"
        /\ sent[u].called # <<>>
        /\ sent[u].data = "a"
        /\ sent[u].called[1].data = "a"
        /\ sent[u].called[1].buffer = "b"

\* C20: the dispatch of a read, write, flush or fsync ends with the closure at
\* the back of the queue, its callback not entered and no reply sent; the
\* reply goes out in the step of the worker whose callback returns, not in a
\* step of the dispatcher.
C20_DispatchDoesNotWait ==
    [][ /\ unique' # unique =>
              /\ unique' = unique + 1
              /\ sent'[unique'].called = <<>>
              /\ sent'[unique'].replies = <<>>
              /\ threads'.queue # <<>>
              /\ threads'.queue[Len(threads'.queue)].reply = unique'
              /\ threads'.running = threads.running
        /\ \A u \in DOMAIN sent :
              sent'[u].replies # sent[u].replies =>
                  /\ Running(u)
                  /\ \A task \in threads'.running : task.reply # u
                  /\ sent'[u].returned # sent[u].returned
                  /\ hist' = hist ]_vars

\* the dispatcher has answered a getattr that came after a read whose callback
\* has been entered and has not returned
C20_Witness ==
    /\ Called("FuseMT_getattr")
    /\ \E u \in DOMAIN sent :
          /\ sent[u].op = "FuseMT_read"
          /\ Running(u)
          /\ sent[u].called # <<>>
          /\ sent[u].returned = <<>>
          /\ sent[u].replies = <<>>

\* C21: with a pool of size 0 the dispatcher runs, and every read, write,
\* flush and fsync it has handled has had its callback entered and its reply
\* sent by the time the handler returned, with nothing left on the queue.
C21_InlineMode ==
    threads.size = 0 =>
        /\ panicked = ""
        /\ threads.queue = <<>>
        /\ \A u \in DOMAIN sent :
              sent[u].called # <<>> /\ Len(sent[u].replies) = 1


(***************************************************************************)
(* Properties of insertion and of the lookup count                         *)
(***************************************************************************)
\* the last two calls were add, then forget of the inode it returned
ForgotTheAdded ==
    /\ panicked = "" /\ Len(hist) >= 2
    /\ hist[1].op = "forget" /\ hist[2].op = "add" /\ hist[1].ino = hist[2].rino

\* C24: add(path) leaves the path's slot, fresh or recycled, with a lookup
\* count of exactly 1: forget(i, 1) right after the add returns 0 and frees
\* the inode, and after one lookup forget(i, 1) returns 1.
C24_AddCountsOne ==
    /\ Called("add") =>
          /\ inodes.table[Last.rino].lookups = 1
          /\ get_inode(inodes, unwrap(Last.path)) = Some(Last.rino)
          /\ LET l == lookup(inodes, Last.rino)
                 f == forget(l.t, Last.rino, 1)
             IN l.panic = "" /\ f.panic = "" /\ f.lookups = 1
    /\ (ForgotTheAdded /\ Last.n = 1) =>
          /\ Last.rcnt = 0
          /\ Last.ino \in FreeSlots
          /\ get_path(inodes, Last.ino) = None

\* add ; forget(i, 1) ; add, the second add taking the slot the forget freed
C24_Witness ==
    /\ Called("add") /\ Len(hist) = 3
    /\ hist[2].n = 1 /\ hist[2].rcnt = 0
    /\ hist[1].rino = hist[3].rino
    /\ hist[1].rgen = hist[3].rgen + 1

\* the lookup counts of t, slot by slot, but for slot i
OtherCounts(t, i) ==
    [k \in DOMAIN t.table \ {i} |-> t.table[k].lookups]

\* C25: add_or_get(path) on a path in by_path returns the inode and the
\* generation the path already has and changes no lookup count; on a path not
\* in by_path it inserts the path with lookup count 0, on a fresh slot and on
\* a recycled one, so that one lookup followed by forget(i, 1) returns 0; the
\* counts of the other slots stay as they were.
C25_AddOrGetCountsNothing ==
    panicked = "" =>
      \A p \in Paths :
        LET r == add_or_get(inodes, p) IN
        IF p \in DOMAIN inodes.by_path
        THEN /\ Some(r.inode) = get_inode(inodes, p)
             /\ r.generation = inodes.table[r.inode].generation
             /\ OtherCounts(r.t, 0) = OtherCounts(inodes, 0)
        ELSE /\ r.t.table[r.inode].lookups = 0
             /\ get_path(r.t, r.inode) = Some(p)
             /\ OtherCounts(r.t, r.inode) = OtherCounts(inodes, r.inode)
             /\ LET l == lookup(r.t, r.inode)
                    f == forget(l.t, r.inode, 1)
                IN l.panic = "" /\ f.panic = "" /\ f.lookups = 0

\* add_or_get has just put a path on a recycled slot, which it left at count 0
C25_Witness ==
    /\ Called("add_or_get")
    /\ \E i \in Slots \ {1} :
          /\ inodes.table[i].generation > 0
          /\ inodes.table[i].lookups = 0
          /\ is_some(inodes.table[i].path)
          /\ get_inode(inodes, unwrap(inodes.table[i].path)) = Some(i)

\* C26: add(path) on a path that by_path already maps is fatal: an add
\* returns only when its path was not mapped before the call, so no add ever
\* gives a mapped path a second inode or moves its mapping.
C26_DuplicateAddIsFatal ==
    [][(panicked = "" /\ Called("add")')
          => unwrap(hist'[1].path) \notin DOMAIN inodes.by_path]_vars

\* add was called on a mapped path and the process has ended in its panic
C26_Witness == panicked = "duplicate path"

\* the forget counts tried on every slot: up to one past the largest count
ForgetArgs == 0..(MaxLookups + 2)

\* C27: forget(i, n) on a non-root inode never takes the lookup count below
\* zero: with n greater than the count it ends in the assertion failure, and
\* otherwise the count it returns and the count it stores are the old count
\* minus n.
C27_ForgetNeverUnderflows ==
    /\ (Called("forget") /\ Last.ino # 1) =>
          /\ Last.rcnt >= 0
          /\ inodes.table[Last.ino].lookups = Last.rcnt
    /\ panicked = "" =>
          \A i \in Slots \ {1}, n \in ForgetArgs :
             LET r == forget(inodes, i, n)
                 count == inodes.table[i].lookups
             IN IF n > count
                THEN r.panic = "assertion failed: n <= entry.lookups"
                ELSE r.panic = "" =>
                        /\ r.lookups = count - n
                        /\ r.t.table[i].lookups = count - n

\* a forget has taken part of an inode's count, and one more than what is
\* left would be the assertion failure
C27_Witness ==
    /\ Called("forget") /\ Last.ino # 1
    /\ Last.n > 0 /\ Last.rcnt > 0
    /\ forget(inodes, Last.ino, Last.rcnt + 1).panic # ""

ZeroSlots == {i \in Slots \ {1} : inodes.table[i].lookups = 0}

\* every slot that leaves the free list in this step comes back one
\* generation later
ReuseIsNextGeneration ==
    panicked' = "" =>
       \A i \in FreeSlots \ FreeSlots' :
          inodes'.table[i].generation = inodes.table[i].generation + 1

ZeroIsFree ==
    \A i \in ZeroSlots : i \in FreeSlots /\ get_path(inodes, i) = None

ZeroIsFreeOrUncounted ==
    \A i \in ZeroSlots :
       IF i \in FreeSlots THEN get_path(inodes, i) = None
       ELSE is_some(get_path(inodes, i))

\* C28: in every reachable state of the inode table every non-root slot whose
\* lookup count is 0 is on the free list and has path None, and the slot's
\* generation is incremented when it is next reused.
C28_ZeroMeansFree == [][ZeroIsFree' /\ ReuseIsNextGeneration]_vars

\* C28, amended: every non-root slot whose lookup count is 0 is either on the
\* free list with path None, or off the free list with a path (put there by
\* add_or_get and not yet counted by a lookup); a slot that leaves the free
\* list has its generation incremented.
C28_ZeroIsFreeOrUncounted == [][ZeroIsFreeOrUncounted' /\ ReuseIsNextGeneration]_vars

\* a freed slot and a slot add_or_get has filled, both at count 0, after a
\* slot has been reused
C28_Witness ==
    /\ panicked = ""
    /\ \E i \in ZeroSlots : i \in FreeSlots /\ inodes.table[i].generation > 0
    /\ \E i \in ZeroSlots : i \notin FreeSlots

(***************************************************************************)
(* Properties of rename                                                    *)
(***************************************************************************)
\* the lookup count and the generation of every slot
CountsAndGenerations(t) ==
    [k \in DOMAIN t.table |-> <<t.table[k].lookups, t.table[k].generation>>]

\* C29: rename(old, new) leaves the renamed entry's inode number, generation
\* and lookup count as they were, and changes no lookup count, no generation
\* and no free-list membership of any other entry.
C29_RenameTouchesOnlyPaths ==
    [][(panicked = "" /\ Called("rename")') =>
          /\ Some(hist'[1].rino) = get_inode(inodes, unwrap(hist'[1].path))
          /\ Some(hist'[1].rino) = get_inode(inodes', unwrap(hist'[1].path2))
          /\ CountsAndGenerations(inodes') = CountsAndGenerations(inodes)
          /\ inodes'.free_list = inodes.free_list]_vars

\* a recycled, twice looked-up inode has been renamed beside other entries
C29_Witness ==
    /\ Called("rename") /\ Last.path # Last.path2
    /\ inodes.table[Last.rino].generation > 0
    /\ inodes.table[Last.rino].lookups > 1
    /\ FreeSlots # {}

\* the step just taken is rename(a, b) with b mapped to an inode other than a's
RenamedOnto(a, b, j) ==
    /\ panicked = "" /\ Called("rename")'
    /\ hist'[1].path = Some(a) /\ hist'[1].path2 = Some(b)
    /\ get_inode(inodes, b) = Some(j)
    /\ get_inode(inodes, a) # Some(j)

\* C30: rename(a, b) while b is mapped to a different inode j replaces the
\* mapping of b in that one call (get_inode(b) = i_a, get_inode(a) = None) and
\* leaves j its slot: j is not on the free list and get_path(j) returns a
\* path, and both stay so over every later call until a forget brings j's own
\* lookup count to zero.
C30_DisplacedKeepsSlot ==
    [][/\ \A a \in Files, b \in Files, j \in Slots :
             RenamedOnto(a, b, j) =>
                /\ get_inode(inodes', b) = get_inode(inodes, a)
                /\ get_inode(inodes', a) = None
                /\ j \notin FreeSlots'
                /\ is_some(get_path(inodes', j))
       /\ \A j \in Slots :
             (Detached(j) /\ panicked' = "" /\ ~ForgotToZero(j)) =>
                /\ j \notin FreeSlots'
                /\ is_some(get_path(inodes', j))]_vars

\* rename(a, b) has displaced an inode, which still holds the path b
C30_Witness ==
    /\ Called("rename") /\ Last.path # Last.path2
    /\ \E j \in Slots \ {Last.rino} :
          /\ get_path(inodes, j) = Last.path2
          /\ j \notin FreeSlots
          /\ inodes.table[j].lookups > 0

(***************************************************************************)
(* Properties of the replies                                               *)
(***************************************************************************)
ErrorReplied == panicked = "" /\ hist # <<>> /\ hist[1].err # ""

AttrReplied ==
    /\ panicked = "" /\ hist # <<>> /\ Last.err = ""
    /\ Last.op \in {"FuseMT_getattr", "FuseMT_setattr"}

EntryReplied ==
    /\ panicked = "" /\ hist # <<>> /\ Last.err = ""
    /\ Last.op \in {"FuseMT_lookup", "FuseMT_mknod", "FuseMT_mkdir",
                    "FuseMT_symlink", "FuseMT_link", "FuseMT_create"}

\* C23: in every reply that carries a FileAttr, the ino field is the
\* inode-table inode of the addressed entry: the request's inode for getattr
\* and setattr, the inode of the entry's path for lookup, mknod, mkdir,
\* symlink, link and create.
C23_AttrInoIsTableInode ==
    /\ AttrReplied => Last.rino = Last.ino
    /\ EntryReplied => Some(Last.rino) = get_inode(inodes, unwrap(Last.path))

(***************************************************************************)
(* Properties of readdir below the root                                    *)
(***************************************************************************)
\* the bitwise complement of x, read as two's complement
Complement(x) == -x - 1

\* the path without its last name
Above(path) == [n \in 1..(Len(path) - 1) |-> path[n]]

\* the inode by_path holds for the parent of directory d's path
ParentInode(t, d) ==
    IF d = 1 THEN Some(1)
    ELSE get_inode(t, Above(unwrap(get_path(t, d))))

EntryInode(t, d, name) ==
    IF name = "." THEN d
    ELSE IF name = ".." THEN unwrap(ParentInode(t, d))
    ELSE Complement(1)

\* the entries the reply of this step has added to what the kernel holds of
\* handle k
Delivered(k) ==
    SubSeq(handles'[k].got, Len(handles[k].got) + 1, Len(handles'[k].got))

ReaddirReplied == Called("FuseMT_readdir")

\* C31: readdir gives "." the inode of the directory being read, ".." the
\* inode of the parent path (1 when the directory is the root) and every
\* other name the bitwise complement of 1, and leaves the inode table as it
\* was.
C31_EntryInodes ==
    [][(panicked = "" /\ ReaddirReplied' /\ hist'[1].err = "") =>
          LET k == hist'[1].fh
              d == hist'[1].ino
              out == Delivered(k)
          IN /\ \A n \in DOMAIN out :
                   out[n].ino = EntryInode(inodes, d, out[n].name)
             /\ inodes' = inodes]_vars

\* the kernel has read ".", ".." and a name of the directory foo/bar's
\* parent, and ".." of foo/bar itself carries the inode of foo
C31_Witness ==
    /\ ReaddirReplied
    /\ \E k \in OpenHandles :
          LET got == handles[k].got
              d == handles[k].ino
          IN /\ d > 1
             /\ Above(unwrap(get_path(inodes, d))) # Root
             /\ \E n \in DOMAIN got : got[n].name = "." /\ got[n].ino = d
             /\ \E n \in DOMAIN got :
                   /\ got[n].name = ".."
                   /\ got[n].ino > 1
                   /\ got[n].ino # d

\* C32: a readdir on a directory other than the root whose parent path has
\* no inode in the table replies EIO and delivers no entry; a readdir on
\* inode 1 never replies this EIO.
C32_ParentlessIsEIO ==
    [][(panicked = "" /\ ReaddirReplied') =>
          LET k == hist'[1].fh
              d == hist'[1].ino
          IN /\ (is_some(get_path(inodes, d)) /\ ~is_some(ParentInode(inodes, d))) =>
                   /\ hist'[1].err = "EIO"
                   /\ Delivered(k) = <<>>
             /\ d = 1 => hist'[1].err = ""
             /\ hist'[1].err = "EIO" => d # 1 /\ ~is_some(ParentInode(inodes, d))]_vars

\* the parent foo has been forgotten and a readdir of foo/bar has been
\* answered EIO
C32_Witness ==
    /\ ReaddirReplied /\ Last.err = "EIO"
    /\ Last.ino > 1
    /\ get_inode(inodes, <<"foo">>) = None
    /\ get_path(inodes, Last.ino) = Some(<<"foo", "bar">>)

(***************************************************************************)
(* Properties of the free list                                             *)
(***************************************************************************)
\* the inodes waiting for reuse, oldest first
FreeQueue(t) == [k \in 1..Len(t.free_list) |-> t.free_list[k] + 1]

\* the step gives a path to inode i, which held none
Inserted(i) ==
    /\ i <= Len(inodes.table) => ~is_some(get_path(inodes, i))
    /\ i <= Len(inodes'.table) /\ is_some(get_path(inodes', i))

\* the step takes the path of inode i away
Emptied(i) ==
    /\ i <= Len(inodes.table) /\ i <= Len(inodes'.table)
    /\ is_some(get_path(inodes, i)) /\ ~is_some(get_path(inodes', i))

\* C34: freed slots are reused in FIFO order: a forget to zero puts its inode
\* behind every inode already waiting, an insertion takes the inode that has
\* waited longest (so of two forgotten inodes a, b the earlier one is handed
\* out first, and the next two insertions after them receive a and then b),
\* and the table grows by a never-used number, one past its length, only when
\* nothing is waiting.
C34_ReuseIsFIFO ==
    [][ panicked' = "" =>
          /\ \A i \in 2..(Len(inodes.table) + 1) :
                /\ Inserted(i) =>
                      IF inodes.free_list # <<>>
                      THEN /\ <<i>> \o FreeQueue(inodes') = FreeQueue(inodes)
                           /\ Len(inodes'.table) = Len(inodes.table)
                      ELSE /\ i = Len(inodes.table) + 1
                           /\ Len(inodes'.table) = i
                           /\ inodes'.free_list = <<>>
                /\ Emptied(i) => FreeQueue(inodes') = FreeQueue(inodes) \o <<i>>
          /\ (\A i \in 2..(Len(inodes.table) + 1) : ~Inserted(i) /\ ~Emptied(i))
                => inodes'.free_list = inodes.free_list /\ Len(inodes'.table) = Len(inodes.table)
      ]_vars

\* inodes 2 and 3 have both been forgotten to zero and handed out again, inode
\* 3 by the newest add, and the table did not grow for either insertion
C34_Witness ==
    /\ panicked = "" /\ Len(inodes.table) = 3 /\ inodes.free_list = <<>>
    /\ hist # <<>> /\ Last.op = "add" /\ Last.rino = 3
    /\ inodes.table[2].generation = 1 /\ inodes.table[3].generation = 1
    /\ is_some(get_path(inodes, 2)) /\ is_some(get_path(inodes, 3))

(***************************************************************************)
(* Properties of the directory keys                                        *)
(***************************************************************************)
\* the step is an opendir that was given a key
NewKey == directory_cache'.issued # directory_cache.issued

\* the entries that were live before the step are as they were
LiveEntriesKept ==
    \A k \in DOMAIN directory_cache.entries :
        /\ k \in DOMAIN directory_cache'.entries
        /\ directory_cache'.entries[k] = directory_cache.entries[k]

\* C35 (as stated): keys are handed out by wrapping increment from 1, and the
\* key new_entry returns is never the key of an entry that is still live, so
\* an opendir never overwrites the real handle or listing of an open directory.
C35_KeyNeverLive ==
    [][ NewKey =>
          /\ hist'[1].fh = (directory_cache.issued + 1) % KeyModulus
          /\ hist'[1].fh \notin DOMAIN directory_cache.entries
          /\ LiveEntriesKept ]_vars

\* C35 (amended): keys are handed out by wrapping increment from 1 (the n-th
\* key is n modulo the width of the counter), and as long as the counter has
\* not gone once around, the key new_entry returns is not the key of a live
\* entry and the opendir leaves every live entry as it was.
C35_KeyNotLiveBeforeWrap ==
    [][ NewKey =>
          /\ hist'[1].fh = (directory_cache.issued + 1) % KeyModulus
          /\ directory_cache'.next_key = (hist'[1].fh + 1) % KeyModulus
          /\ directory_cache.issued < KeyModulus =>
                /\ hist'[1].fh \notin DOMAIN directory_cache.entries
                /\ LiveEntriesKept ]_vars

\* the counter has gone around: key 0 was handed out after the last key
\* below the modulus, while a directory opened before is still open and its
\* listing cached
C35_Witness ==
    /\ panicked = "" /\ Called("FuseMT_opendir") /\ Last.err = ""
    /\ Last.fh = 0 /\ directory_cache.issued = KeyModulus
    /\ \E k \in DOMAIN directory_cache.entries :
          k # 0 /\ is_some(directory_cache.entries[k].entries)

(***************************************************************************)
(* Progress of the pool                                                    *)
(***************************************************************************)
\* the requests whose closure a worker has taken from the queue
Started == {u \in DOMAIN sent : sent[u].called # <<>>}

\* the closures wait in the order they were queued, behind all that were taken
TakenInOrder ==
    /\ \A k \in 1..Len(threads.queue) :
          /\ \A u \in Started : u < threads.queue[k].reply
          /\ \A l \in 1..(k - 1) : threads.queue[l].reply < threads.queue[k].reply

\* the callback of request u has been entered and its reply sent
Served(u) ==
    /\ u \in DOMAIN sent
    /\ sent[u].called # <<>>
    /\ sent[u].replies # <<>>

\* C36: with a pool of N > 0 workers the closures are taken from the queue in
\* the order they were queued, and when the workers are scheduled fairly and
\* the callbacks return, every read, write, flush or fsync that was queued has
\* its callback entered and its reply sent in the end.
C36_EveryTaskServed ==
    /\ []TakenInOrder
    /\ \A u \in 1..MaxReq : (u \in DOMAIN sent) ~> Served(u)

\* two requests were queued, the first was taken first, and both are answered
C36_Witness ==
    /\ panicked = ""
    /\ Served(1) /\ Served(2)
    /\ threads.queue = <<>> /\ threads.running = {}

(***************************************************************************)
(* Properties of forget on a detached inode                                *)
(***************************************************************************)
\* C37: a forget that brings inode i to zero removes from by_path only a
\* mapping that points to i: every path that by_path maps to another inode j
\* before the forget (also the stored path of i, when i was unlinked or
\* displaced and the path given to j since) is mapped to j after it, and j
\* keeps its path.
C37_ForgetRemovesOwnMapping ==
    [][ \A i \in Slots : (panicked' = "" /\ ForgotToZero(i)) =>
          \A p \in DOMAIN inodes.by_path :
              LET j == inodes.by_path[p] + 1 IN
              j # i => /\ get_inode(inodes', p) = Some(j)
                       /\ get_path(inodes', j) = get_path(inodes, j) ]_vars

(***************************************************************************)
(* The invariants of by_path and of the free list                          *)
(***************************************************************************)
\* the slot by_path maps the path p to, as an inode number
SlotOf(p) == inodes.by_path[p] + 1

\* C38: for every mapping p -> idx of by_path the entry table[idx] has path
\* Some(p); by_path never points at a slot on the free list, and no two paths
\* map to the same slot.
C38_ByPathPointsAtLiveSlots ==
    /\ \A p \in DOMAIN inodes.by_path :
          /\ SlotOf(p) \in Slots
          /\ inodes.table[SlotOf(p)].path = Some(p)
          /\ SlotOf(p) \notin FreeSlots
    /\ \A p, q \in DOMAIN inodes.by_path : p # q => SlotOf(p) # SlotOf(q)

\* a forget has freed a slot and taken a mapping from by_path, and another
\* slot keeps a path that by_path does not map to it
C38_Witness ==
    /\ Called("forget") /\ Last.rcnt = 0
    /\ Last.ino \in FreeSlots
    /\ \E i \in Slots : Detached(i) /\ inodes.table[i].lookups > 0

\* C39: the free list holds no index twice and never index 0 (the root), and
\* every index on it is a slot of the table with path None and lookup count
\* 0; so a slot that is reused is the slot of no path when it is handed out.
C39_FreeListIsClean ==
    /\ \A k, l \in 1..Len(inodes.free_list) :
          inodes.free_list[k] = inodes.free_list[l] => k = l
    /\ \A k \in 1..Len(inodes.free_list) :
          LET idx == inodes.free_list[k] IN
          /\ idx # 0
          /\ idx + 1 \in Slots
          /\ inodes.table[idx + 1].path = None
          /\ inodes.table[idx + 1].lookups = 0
          /\ \A p \in DOMAIN inodes.by_path : inodes.by_path[p] # idx

\* two slots wait on the free list, the one freed last for the second time
C39_Witness ==
    /\ panicked = ""
    /\ Len(inodes.free_list) = 2
    /\ inodes.table[inodes.free_list[2] + 1].generation > 0
    /\ inodes.table[inodes.free_list[1] + 1].generation = 0

(***************************************************************************)
(* The path a closure carries                                              *)
(***************************************************************************)
\* C40: the path a pool task passes to the target's read, write, flush or
\* fsync is the path the inode had when the request was dispatched, whatever
\* the dispatch thread has renamed, unlinked or forgotten since.
C40_PathAsDispatched ==
    \A u \in DOMAIN sent :
        /\ sent[u].called # <<>> => sent[u].called[1].path = sent[u].path
        /\ \A task \in threads.running : task.reply = u => task.path = sent[u].path
        /\ \A k \in 1..Len(threads.queue) :
              threads.queue[k].reply = u => threads.queue[k].path = sent[u].path

\* a callback was entered with the path of the dispatch when the table held
\* another path for the inode, or none
C40_Witness ==
    \E u \in DOMAIN sent :
        /\ sent[u].called # <<>>
        /\ sent[u].called[1].path = sent[u].path
        /\ sent[u].called[1].now # Some(sent[u].path)

(***************************************************************************)
(* Properties of the table while the workers run                           *)
(***************************************************************************)
\* a step of a worker: a closure starts or ends
WorkerStep == threads'.running # threads.running

\* the table after the request rec of the kernel, answered as rec says, is
\* handled on the table t
TableAfter(t, rec) ==
    IF rec.err # "" THEN t
    ELSE IF rec.op = "FuseMT_lookup"
    THEN lookup(add_or_get(t, unwrap(rec.path)).t, rec.rino).t
    ELSE IF rec.op = "FuseMT_forget" THEN forget(t, rec.ino, rec.n).t
    ELSE t

\* the names a rename or an unlink took from the kernel's cache and gave it
Renamed(a, b) ==
    /\ <<a>> \in DOMAIN dcache
    /\ dcache' = map_insert(map_remove(dcache, <<a>>), <<b>>, dcache[<<a>>])
Unlinked(a) == <<a>> \in DOMAIN dcache /\ dcache' = map_remove(dcache, <<a>>)

\* C33: the inode table is determined by the order of the kernel's requests
\* and the results of the inline callbacks, whatever the workers do: a step of
\* a worker leaves the table, and everything a handler reads to change it, as
\* it was, and the table after a request is the table before it with that
\* request applied, whatever is queued or running.
C33_TableFollowsRequests ==
    [][ (panicked = "" /\ panicked' = "") =>
          /\ WorkerStep => UNCHANGED <<inodes, fs, nlookup, dcache, hist>>
          /\ ~WorkerStep =>
                IF hist'[1].op \in {"FuseMT_rename", "FuseMT_unlink"} /\ hist'[1].err = ""
                THEN \/ \E a \in Names, b \in Names :
                          Renamed(a, b) /\ inodes' = rename(inodes, <<a>>, <<b>>).t
                     \/ \E a \in Names :
                          Unlinked(a) /\ inodes' = unlink(inodes, <<a>>)
                ELSE inodes' = TableAfter(inodes, hist'[1]) ]_vars

\* a lookup or a forget changed the table while a closure was queued or running
C33_Witness ==
    /\ panicked = "" /\ hist # <<>>
    /\ Last.op \in {"FuseMT_lookup", "FuseMT_forget"} /\ Last.err = ""
    /\ (threads.queue # <<>> \/ threads.running # {})
    /\ \E i \in DOMAIN inodes.table : i > 1 /\ inodes.table[i].lookups > 0

(***************************************************************************)
(* Properties of path resolution                                           *)
(***************************************************************************)
\* the operations that SpecStale sends only to inodes that cannot be resolved
OnlyUnresolved == {"FuseMT_getattr", "FuseMT_setattr", "FuseMT_readlink",
                   "FuseMT_mknod", "FuseMT_mkdir", "FuseMT_unlink", "FuseMT_rmdir",
                   "FuseMT_symlink", "FuseMT_rename", "FuseMT_link", "FuseMT_open",
                   "FuseMT_read", "FuseMT_write", "FuseMT_flush", "FuseMT_release",
                   "FuseMT_fsync", "FuseMT_opendir", "FuseMT_readdir",
                   "FuseMT_releasedir", "FuseMT_fsyncdir", "FuseMT_statfs",
                   "FuseMT_getxattr", "FuseMT_listxattr", "FuseMT_create"}

\* a request that was answered was answered EINVAL with no callback made
EinvalWithoutCallback ==
    (hist # <<>> /\ Last.op \in OnlyUnresolved) =>
        Last.err = "EINVAL" /\ Last.cb = <<>> /\ threads.queue = <<>>

\* C11: every operation addressed to an inode (or parent, or new parent) for
\* which the table has no path is answered EINVAL with no callback made: the
\* dispatcher goes on running and the reply is EINVAL.
C11_UnresolvedIsEINVAL ==
    /\ panicked = ""
    /\ EinvalWithoutCallback

====
